---- MODULE Spec2Model ----
(***************************************************************************)
(* Ansible modules for Adobe Experience Manager (AEM).                     *)
(*                                                                         *)
(* Every module of the repository is one script: it reads its parameters,  *)
(* fetches the current state from the AEM server over HTTP, compares it    *)
(* with the desired state, possibly issues mutating requests and ends in   *)
(* exit_json or fail_json.  A behaviour of a specification below is a      *)
(* sequence of invocations of one module against one server.  The server   *)
(* is the environment: the status code of each answer, and whether a       *)
(* request answered with success was applied, are chosen nondeterministic- *)
(* ally.                                                                   *)
(*                                                                         *)
(* Specifications: SpecBundle (library/aem_bundle.py), SpecPassword        *)
(* (library/aem_password.py), SpecUser (aem_user.py), SpecGroup            *)
(* (library/aem_group.py), SpecOsgi (aem_osgi.py), SpecPackmgr             *)
(* (library/aem_packmgr.py); SpecInvocation (one invocation of any of      *)
(* them); SpecCheckThenReal (a task run in check mode, then without).      *)
(***************************************************************************)
EXTENDS Integers, Sequences, FiniteSets, TLC

VARIABLES
    pc,      \* position of the running invocation ("idle" between invocations)
    params,  \* module.params: the task, the same in every invocation
    self,    \* the fields of the module's object (AEMBundle, AEMUser, ...)
    server,  \* the state held by the AEM server
    sent,    \* the HTTP requests of the running invocation, with their answers
    pre,     \* the server state when the running invocation started
    hist     \* one summary per finished invocation, oldest first

vars == <<pc, params, self, server, sent, pre, hist>>

\* Number of invocations in a behaviour.
MaxRuns == 2

None == "None"

\* ---------------------------------------------------------------- helpers

\* the requests of a log that satisfy Test
Count(log, Test(_)) == Cardinality({i \in 1..Len(log) : Test(log[i])})

\* The summary of a finished invocation, appended to hist by exit_json
\* and fail_json.
Summary(outcome, changed, msg, log) ==
    [outcome |-> outcome, changed |-> changed, msg |-> msg, sent |-> log,
     pre |-> IF pc = "idle" THEN server ELSE pre]

\* module.exit_json / module.fail_json end the process.
Finished(outcome, changed, msg, log) ==
    /\ hist' = Append(hist, Summary(outcome, changed, msg, log))
    /\ pc' = "idle"
    /\ self' = None
    /\ sent' = <<>>
    /\ pre' = None

\* ======================================================================
\* library/aem_bundle.py
\* ======================================================================

BundleStates == {"Active", "Resolved", "Installed"}
BundleActions == {"start", "stop", "refresh"}

\* GET /system/console/bundles/<name>.json as the server answers it: 200 with
\* the bundle's state, 404 for an unknown bundle, 503 when the console fails.
BundleStatusAnswers(srv) ==
    IF srv.bundle = "missing"
    THEN {[code |-> 404, state |-> None]}
    ELSE {[code |-> 200, state |-> srv.bundle], [code |-> 503, state |-> None]}

\* POST /system/console/bundles/<name> action=<action>: the bundle state left
\* by a request the server applied.
BundleAfter(action, state) ==
    CASE action = "start" -> "Active"
      [] action = "stop" -> "Resolved"
      [] OTHER -> state

\* AEMBundle._get_bnd_status: the fields set from the answer.
get_bnd_status(ans) ==
    IF ans.code = 200
    THEN [exists |-> TRUE, active |-> (ans.state = "Active")]
    ELSE [exists |-> FALSE, active |-> FALSE]

\* AEMBundle.apply_task: whether do_action is called for an existing bundle.
apply_task_calls_do_action_mut(action, active) == TRUE
apply_task_calls_do_action(action, active) ==
    CASE action = "start" -> ~active
      [] action = "stop" -> active
      [] OTHER -> TRUE

Init_Bundle ==
    /\ pc = "idle"
    /\ params \in [name : {"bundle"}, action : BundleActions]
    /\ self = None
    /\ server \in [bundle : BundleStates \cup {"missing"}]
    /\ sent = <<>>
    /\ pre = None
    /\ hist = <<>>

\* main: AnsibleModule(...), AEMBundle(module) with __init__ calling
\* _get_bnd_status.
AEMBundle_init ==
    /\ pc = "idle"
    /\ Len(hist) < MaxRuns
    /\ \E ans \in BundleStatusAnswers(server) :
        /\ self' = [exists |-> get_bnd_status(ans).exists,
                    active |-> get_bnd_status(ans).active,
                    changed |-> FALSE, msg |-> <<>>]
        /\ sent' = <<[method |-> "GET", what |-> "status", code |-> ans.code,
                      applied |-> FALSE]>>
    /\ pre' = server
    /\ pc' = "apply_task"
    /\ UNCHANGED <<params, server, hist>>

\* AEMBundle.do_action without the assignment self.changed = True
do_action_mut(code, applied) ==
    LET req == [method |-> "POST", what |-> params.action, code |-> code,
                applied |-> applied]
    IN /\ server' = IF applied
                    THEN [server EXCEPT !.bundle = BundleAfter(params.action, @)]
                    ELSE server
       /\ IF code # 200
          THEN Finished("fail", FALSE, "failed to perform action", Append(sent, req))
          ELSE /\ self' = [self EXCEPT !.msg = Append(@, "action was performmed")]
               /\ sent' = Append(sent, req)
               /\ pc' = "show_message"
               /\ UNCHANGED <<pre, hist>>

\* AEMBundle.do_action: the POST, fail_json on a status other than 200.
do_action(code, applied) ==
    LET req == [method |-> "POST", what |-> params.action, code |-> code,
                applied |-> applied]
    IN /\ server' = IF applied
                    THEN [server EXCEPT !.bundle = BundleAfter(params.action, @)]
                    ELSE server
       /\ IF code # 200
          THEN Finished("fail", FALSE, "failed to perform action", Append(sent, req))
          ELSE /\ self' = [self EXCEPT !.changed = TRUE,
                                       !.msg = Append(@, "action was performmed")]
               /\ sent' = Append(sent, req)
               /\ pc' = "show_message"
               /\ UNCHANGED <<pre, hist>>

\* AEMBundle.apply_task
AEMBundle_apply_task ==
    /\ pc = "apply_task"
    /\ IF self.exists
       THEN IF apply_task_calls_do_action(params.action, self.active)
            THEN \E code \in {200, 500}, applied \in BOOLEAN :
                    /\ (applied => code = 200)
                    /\ do_action(code, applied)
            ELSE /\ pc' = "show_message"
                 /\ UNCHANGED <<self, server, sent, pre, hist>>
       ELSE /\ Finished("fail", FALSE, "can't find bundle", sent)
            /\ UNCHANGED server
    /\ UNCHANGED params

\* AEMBundle.show_message
AEMBundle_show_message ==
    /\ pc = "show_message"
    /\ Finished("exit", self.changed, self.msg, sent)
    /\ UNCHANGED <<params, server>>

Next_Bundle ==
    \/ AEMBundle_init
    \/ AEMBundle_apply_task
    \/ AEMBundle_show_message

SpecBundle == Init_Bundle /\ [][Next_Bundle]_vars

\* ----------------------------------------------------------------------
\* Properties of library/aem_bundle.py

IsPost(r) == r.method = "POST"
IsPost200(r) == r.method = "POST" /\ r.code = 200
\* every POST the server answered with success was applied by it
Faithful(h) == \A i \in 1..Len(h.sent) :
    (h.sent[i].method = "POST" /\ h.sent[i].code \in {200, 201})
        => h.sent[i].applied
\* the invocation found the bundle (the status GET answered 200)
BundleFound(h) == h.sent[1].code = 200
InRequestedState(action, state) ==
    CASE action = "start" -> state = "Active"
      [] action = "stop" -> state # "Active"
      [] OTHER -> FALSE

\* C1: aem_bundle start/stop is idempotent. Of two consecutive invocations
\* with the same parameters (action start or stop) that both find the bundle,
\* against a server that applies every POST it answers 200, the second one
\* reports changed=false and issues no POST when the first ended normally; and
\* the first reports changed=true exactly when the bundle was not already in
\* the requested state.
C1_BundleIdempotent ==
    \A i \in 1..Len(hist) :
        LET h == hist[i] IN
        (params.action \in {"start", "stop"} /\ BundleFound(h)
         /\ Faithful(h) /\ h.outcome = "exit") =>
            /\ h.changed = ~InRequestedState(params.action, h.pre.bundle)
            /\ (i < Len(hist) /\ BundleFound(hist[i+1])) =>
                    /\ hist[i+1].outcome = "exit"
                    /\ hist[i+1].changed = FALSE
                    /\ Count(hist[i+1].sent, IsPost) = 0

\* a start that changed the bundle, followed by an unchanged second start
C1_Witness ==
    /\ Len(hist) = 2
    /\ params.action = "start"
    /\ hist[1].outcome = "exit" /\ hist[1].changed
    /\ Faithful(hist[1])
    /\ hist[2].outcome = "exit" /\ ~hist[2].changed

\* C8: for an existing bundle, start POSTs iff the bundle is not Active, stop
\* iff it is Active, refresh always; an invocation issues at most one POST; and
\* on normal exit changed=true exactly when the POST was issued and answered
\* 200.
C8_BundleActionGuard ==
    \A i \in 1..Len(hist) :
        LET h == hist[i]
            posts == Count(h.sent, IsPost)
            wasActive == h.pre.bundle = "Active"
        IN BundleFound(h) =>
            /\ posts <= 1
            /\ (params.action = "start" => (posts = 1 <=> ~wasActive))
            /\ (params.action = "stop" => (posts = 1 <=> wasActive))
            /\ (params.action = "refresh" => posts = 1)
            /\ (h.outcome = "exit" =>
                    (h.changed <=> Count(h.sent, IsPost200) = 1))

\* a refresh of an Active bundle and a stop of a Resolved one, both finished
C8_Witness ==
    \E i \in 1..Len(hist) :
        /\ BundleFound(hist[i])
        /\ hist[i].outcome = "exit"
        /\ \/ params.action = "refresh" /\ hist[i].pre.bundle = "Active"
              /\ hist[i].changed
           \/ params.action = "stop" /\ hist[i].pre.bundle = "Resolved"
              /\ ~hist[i].changed

\* ======================================================================
\* library/aem_password.py
\* ======================================================================

\* The passwords a task names, and the passwords the user may have.
Passwords == {"pw1", "pw2"}
ServerPasswords == Passwords \cup {"pw3"}
\* Longest old_password list.
MaxOld == 2
OldLists == UNION {[1..n -> Passwords] : n \in 0..MaxOld}

\* GET /bin/querybuilder.json with auth=(id, password): 200 when the password
\* is the user's, 401 when it is not, 503 when the server fails (down).
ProbeCode(srv, password, down) ==
    IF down THEN 503 ELSE IF srv.password = password THEN 200 ELSE 401

Probe(srv, password, down) ==
    [method |-> "GET", what |-> "probe", auth |-> password, old |-> None,
     plain |-> None, code |-> ProbeCode(srv, password, down), applied |-> FALSE]

\* The loop of get_user_info over old_password_list from index i on: the
\* probes it issues, ending with the first one answered 200 (break).
RECURSIVE ProbeOld(_, _, _, _)
ProbeOld(srv, olds, i, down) ==
    IF i > Len(olds) THEN <<>>
    ELSE LET r == Probe(srv, olds[i], i \in down)
         IN IF r.code = 200 THEN <<r>>
            ELSE <<r>> \o ProbeOld(srv, olds, i + 1, down)

\* get_user_info probing the old passwords before the new one
get_user_info_oldfirst(srv, p, down) ==
    LET olds == ProbeOld(srv, p.old_password, 1, down)
        old_password_valid == olds # <<>> /\ olds[Len(olds)].code = 200
        first == Probe(srv, p.new_password, 0 \in down)
    IN IF old_password_valid
       THEN [log |-> olds, verdict |-> "old_valid",
             old_password |-> olds[Len(olds)].auth]
       ELSE IF first.code = 200
       THEN [log |-> olds \o <<first>>, verdict |-> "new_valid",
             old_password |-> None]
       ELSE [log |-> olds \o <<first>>,
             verdict |-> IF p.ignore_err THEN "ignored" ELSE "invalid",
             old_password |-> None]

\* get_user_info going on to set_password when no password is valid and
\* ignore_err is set
get_user_info_ignore(srv, p, down) ==
    LET first == Probe(srv, p.new_password, 0 \in down)
        olds == ProbeOld(srv, p.old_password, 1, down)
        old_password_valid == olds # <<>> /\ olds[Len(olds)].code = 200
    IN IF first.code = 200
       THEN [log |-> <<first>>, verdict |-> "new_valid", old_password |-> None]
       ELSE IF old_password_valid \/ p.ignore_err
       THEN [log |-> <<first>> \o olds, verdict |-> "old_valid",
             old_password |-> IF olds # <<>> THEN olds[Len(olds)].auth
                              ELSE p.new_password]
       ELSE [log |-> <<first>> \o olds, verdict |-> "invalid",
             old_password |-> None]

\* AEMPassword.get_user_info: the probes issued (down: the probes the server
\* fails, 0 for the probe with new_password, i for old_password_list[i]) and
\* how the method ends: "new_valid" (exit_status, unchanged), "old_valid"
\* (returns, self.old_password set), "ignored" (exit_status), "invalid"
\* (fail_json).
get_user_info(srv, p, down) ==
    LET first == Probe(srv, p.new_password, 0 \in down)
        olds == ProbeOld(srv, p.old_password, 1, down)
        old_password_valid == olds # <<>> /\ olds[Len(olds)].code = 200
    IN IF first.code = 200
       THEN [log |-> <<first>>, verdict |-> "new_valid", old_password |-> None]
       ELSE IF old_password_valid
       THEN [log |-> <<first>> \o olds, verdict |-> "old_valid",
             old_password |-> olds[Len(olds)].auth]
       ELSE [log |-> <<first>> \o olds,
             verdict |-> IF p.ignore_err THEN "ignored" ELSE "invalid",
             old_password |-> None]

\* set_password authenticating with the head of old_password_list
set_password_request_head(p, me, code, applied) ==
    [method |-> "POST", what |-> "setpassword", auth |-> p.old_password[1],
     old |-> me.old_password, plain |-> p.new_password, code |-> code,
     applied |-> applied]

\* AEMPassword.set_password: POST /crx/explorer/ui/setpassword.jsp with
\* auth=(id, old_password) and the fields plain, verify, old.
set_password_request(p, me, code, applied) ==
    [method |-> "POST", what |-> "setpassword", auth |-> me.old_password,
     old |-> me.old_password, plain |-> p.new_password, code |-> code,
     applied |-> applied]

Init_Password ==
    /\ pc = "idle"
    /\ params \in [id : {"admin"}, new_password : Passwords,
                   old_password : OldLists, ignore_err : BOOLEAN,
                   check_mode : BOOLEAN]
    /\ self = None
    /\ server \in [password : ServerPasswords]
    /\ sent = <<>>
    /\ pre = None
    /\ hist = <<>>

\* main: AEMPassword(module), whose __init__ calls get_user_info.
AEMPassword_init ==
    /\ pc = "idle"
    /\ Len(hist) < MaxRuns
    /\ \E down \in SUBSET (0..Len(params.old_password)) :
        LET g == get_user_info(server, params, down) IN
        CASE g.verdict = "new_valid" ->
                Finished("exit", FALSE, "password doesn't need to be changed", g.log)
          [] g.verdict = "ignored" ->
                Finished("exit", FALSE,
                         "Ignoring that neither old nor new passwords are valid", g.log)
          [] g.verdict = "invalid" ->
                Finished("fail", FALSE, "Neither old nor new passwords are valid", g.log)
          [] OTHER ->
                /\ self' = [old_password |-> g.old_password, changed |-> FALSE]
                /\ sent' = g.log
                /\ pre' = server
                /\ pc' = "set_password"
                /\ UNCHANGED hist
    /\ UNCHANGED <<params, server>>

\* AEMPassword.set_password
AEMPassword_set_password ==
    /\ pc = "set_password"
    /\ IF ~params.check_mode
       THEN \E code \in {200, 500}, applied \in BOOLEAN :
            LET req == set_password_request(params, self, code, applied) IN
            /\ applied => (code = 200 /\ server.password = req.auth)
            /\ server' = IF applied THEN [server EXCEPT !.password = req.plain]
                         ELSE server
            /\ IF code # 200
               THEN Finished("fail", FALSE, "failed to change password",
                             Append(sent, req))
               ELSE /\ self' = [self EXCEPT !.changed = TRUE]
                    /\ sent' = Append(sent, req)
                    /\ pc' = "exit_status"
                    /\ UNCHANGED <<pre, hist>>
       ELSE /\ self' = [self EXCEPT !.changed = TRUE]
            /\ pc' = "exit_status"
            /\ UNCHANGED <<server, sent, pre, hist>>
    /\ UNCHANGED params

\* AEMPassword.exit_status, called by main after set_password
AEMPassword_exit_status ==
    /\ pc = "exit_status"
    /\ Finished("exit", self.changed, "password changed", sent)
    /\ UNCHANGED <<params, server>>

Next_Password ==
    \/ AEMPassword_init
    \/ AEMPassword_set_password
    \/ AEMPassword_exit_status

SpecPassword == Init_Password /\ [][Next_Password]_vars

\* ----------------------------------------------------------------------
\* Properties of library/aem_password.py

IsSetPassword(r) == r.what = "setpassword"
\* no request of the invocation was answered with a server failure
NoOutage(h) == \A i \in 1..Len(h.sent) : h.sent[i].code \notin {500, 503}
\* the invocation changed the password: its setpassword POST was answered 200
\* and the server applied it
PasswordChanged(h) ==
    \E i \in 1..Len(h.sent) :
        IsSetPassword(h.sent[i]) /\ h.sent[i].code = 200 /\ h.sent[i].applied

\* C2: aem_password is idempotent. After an invocation whose setpassword POST
\* was answered 200 and applied, the next invocation (same id, old_password
\* and new_password), answered by the server according to its state, sends
\* only the probe with new_password, issues no setpassword POST and exits
\* with changed=false.
C2_PasswordIdempotent ==
    \A i \in 1..(Len(hist) - 1) :
        (PasswordChanged(hist[i]) /\ NoOutage(hist[i+1])) =>
            /\ hist[i+1].outcome = "exit"
            /\ hist[i+1].changed = FALSE
            /\ Count(hist[i+1].sent, IsSetPassword) = 0
            /\ Len(hist[i+1].sent) = 1
            /\ hist[i+1].sent[1].auth = params.new_password

\* the password was changed by the first run and the second run, with the new
\* password also listed among the old ones, leaves it alone
C2_Witness ==
    /\ Len(hist) = 2
    /\ PasswordChanged(hist[1]) /\ hist[1].changed
    /\ \E k \in 1..Len(params.old_password) :
            params.old_password[k] = params.new_password
    /\ NoOutage(hist[2])
    /\ ~hist[2].changed

\* the index in the log of the first probe of an old password answered 200
FirstValid(log) ==
    LET ok == {j \in 2..Len(log) : log[j].what = "probe" /\ log[j].code = 200}
    IN IF ok = {} THEN 0 ELSE CHOOSE j \in ok : \A k \in ok : j <= k

\* C9: when the probe with new_password is not answered 200, the old
\* passwords are probed in list order, no probe follows the first one answered
\* 200, and a setpassword POST comes only after such a probe and carries the
\* password of that probe as its credentials and as its 'old' field.
C9_ProbeOrder ==
    \A i \in 1..Len(hist) :
        LET log == hist[i].sent
            fv == FirstValid(log)
            probes == {j \in 1..Len(log) : log[j].what = "probe"}
        IN (log[1].code # 200) =>
            /\ \A j \in probes : j >= 2 =>
                    /\ j - 1 <= Len(params.old_password)
                    /\ log[j].auth = params.old_password[j - 1]
                    /\ (fv # 0 => j <= fv)
            /\ \A j \in 1..Len(log) : IsSetPassword(log[j]) =>
                    /\ fv # 0 /\ j = fv + 1
                    /\ log[j].auth = log[fv].auth
                    /\ log[j].old = log[fv].auth
                    /\ log[j].plain = params.new_password
            /\ (fv = 0 => Cardinality(probes) = 1 + Len(params.old_password))

\* the second old password is the first valid one and is used for the POST
C9_Witness ==
    \E i \in 1..Len(hist) :
        LET log == hist[i].sent IN
        /\ Len(log) = 4
        /\ log[1].code = 401 /\ log[2].code = 401 /\ log[3].code = 200
        /\ IsSetPassword(log[4]) /\ log[4].auth = params.old_password[2]
        /\ params.old_password[1] # params.old_password[2]

\* no probe of the invocation was answered 200
NoneAuthenticates(h) ==
    \A j \in 1..Len(h.sent) : h.sent[j].what = "probe" => h.sent[j].code # 200

\* C10: when neither new_password nor any old password authenticates, no
\* setpassword POST is issued; the invocation fails with 'Neither old nor new
\* passwords are valid' if ignore_err is false and exits with changed=false
\* if ignore_err is true.
C10_NoValidPassword ==
    \A i \in 1..Len(hist) :
        LET h == hist[i] IN
        NoneAuthenticates(h) =>
            /\ Count(h.sent, IsSetPassword) = 0
            /\ Len(h.sent) = 1 + Len(params.old_password)
            /\ (~params.ignore_err =>
                    /\ h.outcome = "fail"
                    /\ h.msg = "Neither old nor new passwords are valid")
            /\ (params.ignore_err => h.outcome = "exit" /\ h.changed = FALSE)

\* with ignore_err the invocation exits quietly after the new and
\* two old passwords were rejected
C10_Witness ==
    \E i \in 1..Len(hist) :
        /\ NoneAuthenticates(hist[i])
        /\ Len(hist[i].sent) = 3
        /\ \A j \in 1..3 : hist[i].sent[j].code = 401
        /\ params.ignore_err /\ hist[i].outcome = "exit"

\* ======================================================================
\* aem_user.py
\* ======================================================================

\* Longest groups list of a task.
MaxGroups == 2
GroupNames == {"everyone", "g1"}
\* Python's string order on the names that get sorted
GroupRank(g) == CASE g = "G1" -> 0
                  [] g = "a" -> 1
                  [] g = "administrators" -> 2
                  [] g = "b" -> 3
                  [] g = "everyone" -> 4
                  [] g = "g1" -> 5
                  [] OTHER -> 6
GroupLists == UNION {[1..n -> GroupNames] : n \in 0..MaxGroups}

\* list.sort() (insertion into the sorted tail)
RECURSIVE Insert(_, _)
Insert(g, s) ==
    IF s = <<>> THEN <<g>>
    ELSE IF GroupRank(g) <= GroupRank(Head(s)) THEN <<g>> \o s
    ELSE <<Head(s)>> \o Insert(g, Tail(s))
RECURSIVE Sort(_)
Sort(s) == IF s = <<>> THEN <<>> ELSE Insert(Head(s), Sort(Tail(s)))

\* ','.join(list)
RECURSIVE Join(_)
Join(s) == IF s = <<>> THEN ""
           ELSE IF Len(s) = 1 THEN s[1]
           ELSE s[1] \o "," \o Join(Tail(s))

Contains(s, g) == \E i \in 1..Len(s) : s[i] = g

\* A password as check_password sees it: long (at least 12 characters),
\* digit (\d+), mixed ([a-z] and [A-Z]), special (the third pattern).
WeakPassword == "Passw0rd12345"
StrongPassword == "Passw0rd,!12345"
\* generate_password: 16 random characters
GeneratedPassword == "generated"
PasswordFeatures(pw) ==
    IF pw = StrongPassword
    THEN [long |-> TRUE, digit |-> TRUE, mixed |-> TRUE, special |-> TRUE]
    ELSE [long |-> TRUE, digit |-> TRUE, mixed |-> TRUE, special |-> FALSE]
\* A list parameter left at its default None.
NoList == <<None>>
\* No user under the id.
NoUser == [exists |-> FALSE, name |-> "", groups |-> <<>>, password |-> None]
Running == [outcome |-> "running", msg |-> ""]

\* AEMUser.check_password: TRUE when the password passes
U_check_password(password) ==
    LET pw == PasswordFeatures(password)
        score == (IF pw.digit THEN 1 ELSE 0) + (IF pw.mixed THEN 1 ELSE 0)
                 + (IF pw.special THEN 1 ELSE 0)
    IN ~(~pw.long \/ score < 3)

\* '%s %s' % (first_name, last_name)
FullName(first, last) == first \o " " \o last

\* A request of aem_user in the log.
UReq(method, what, name, groups, password, code, applied) ==
    [method |-> method, what |-> what, name |-> name, groups |-> groups,
     password |-> password, code |-> code, applied |-> applied]

\* The running invocation while a method executes: the server, the requests
\* sent, the object's fields, and how the process ended (None while it runs).
Ended(st, outcome, msg) == [st EXCEPT !.end = [outcome |-> outcome, msg |-> msg]]
Sent(st, req) == [st EXCEPT !.log = Append(@, req)]

\* get_user_info taking a search answered with another status than 200 for
\* "no such user"
U_get_user_info_search_unchecked(st, sc, ic) ==
    IF st.end # Running THEN st
    ELSE LET s1 == Sent(st, UReq("GET", "search", <<>>, NoList, None, sc, FALSE))
         IN IF sc # 200 \/ ~s1.srv.user.exists
            THEN [s1 EXCEPT !.me.exists = FALSE]
            ELSE LET s2 == Sent(s1, UReq("GET", "info", <<>>, NoList, None, ic, FALSE))
                 IN IF ic = 200
                    THEN [s2 EXCEPT !.me.exists = TRUE,
                                    !.me.path = "/home/users/u",
                                    !.me.curr_name = s2.srv.user.name,
                                    !.me.curr_groups = s2.srv.user.groups]
                    ELSE [s2 EXCEPT !.me.exists = FALSE,
                                    !.me.path = "/home/users/u"]

\* AEMUser.get_user_info; sc and ic are the status codes of the search and of
\* the <path>.rw.json request.
U_get_user_info(st, sc, ic) ==
    IF st.end # Running THEN st
    ELSE LET s1 == Sent(st, UReq("GET", "search", <<>>, NoList, None, sc, FALSE))
         IN IF sc # 200 THEN Ended(s1, "fail", "Error searching for user")
            ELSE IF ~s1.srv.user.exists
            THEN [s1 EXCEPT !.me.exists = FALSE]
            ELSE LET s2 == Sent(s1, UReq("GET", "info", <<>>, NoList, None, ic, FALSE))
                 IN IF ic = 200
                    THEN [s2 EXCEPT !.me.exists = TRUE,
                                    !.me.path = "/home/users/u",
                                    !.me.curr_name = s2.srv.user.name,
                                    !.me.curr_groups = s2.srv.user.groups]
                    ELSE [s2 EXCEPT !.me.exists = FALSE,
                                    !.me.path = "/home/users/u"]

\* update_name posting the password with the name
U_update_name_with_password(st, p, code, applied) ==
    IF st.end # Running THEN st
    ELSE IF ~p.check_mode
    THEN LET s1 == Sent(st, UReq("POST", "update_name",
                                 <<p.first_name, p.last_name>>, NoList,
                                 st.me.password, code, applied))
             s2 == IF applied
                   THEN [s1 EXCEPT !.srv.user.name =
                                        FullName(p.first_name, p.last_name),
                                   !.srv.user.password = st.me.password]
                   ELSE s1
         IN IF code # 200 THEN Ended(s2, "fail", "failed to update name")
            ELSE [s2 EXCEPT !.me.changed = TRUE]
    ELSE [st EXCEPT !.me.changed = TRUE]

\* AEMUser.update_name; code and applied are the server's answer to the POST.
U_update_name(st, p, code, applied) ==
    IF st.end # Running THEN st
    ELSE IF ~p.check_mode
    THEN LET s1 == Sent(st, UReq("POST", "update_name",
                                 <<p.first_name, p.last_name>>, NoList,
                                 None, code, applied))
             s2 == IF applied
                   THEN [s1 EXCEPT !.srv.user.name =
                                        FullName(p.first_name, p.last_name)]
                   ELSE s1
         IN IF code # 200 THEN Ended(s2, "fail", "failed to update name")
            ELSE [s2 EXCEPT !.me.changed = TRUE]
    ELSE [st EXCEPT !.me.changed = TRUE]

\* AEMUser.update_groups
U_update_groups(st, p, code, applied) ==
    IF st.end # Running THEN st
    ELSE IF ~p.check_mode
    THEN LET s1 == Sent(st, UReq("POST", "update_groups", <<>>, st.me.groups,
                                 None, code, applied))
             s2 == IF applied
                   THEN [s1 EXCEPT !.srv.user.groups = st.me.groups]
                   ELSE s1
         IN IF code # 200 THEN Ended(s2, "fail", "failed to update groups")
            ELSE [s2 EXCEPT !.me.changed = TRUE]
    ELSE [st EXCEPT !.me.changed = TRUE]

\* create_user posting in check mode too
U_create_user_unguarded(st, p, code, applied, sc, ic) ==
    IF st.end # Running THEN st
    ELSE LET s1 == Sent(st, UReq("POST", "create",
                                 <<p.first_name, p.last_name>>, st.me.groups,
                                 st.me.password, code, applied))
             s2 == IF applied
                   THEN [s1 EXCEPT !.srv.user =
                            [exists |-> TRUE,
                             name |-> FullName(p.first_name, p.last_name),
                             groups |-> st.me.groups,
                             password |-> st.me.password]]
                   ELSE s1
             s3 == U_get_user_info(s2, sc, ic)
         IN IF s3.end # Running THEN s3
            ELSE IF code # 201 \/ ~s3.me.exists
            THEN Ended(s3, "fail", "failed to create user")
            ELSE [s3 EXCEPT !.me.changed = TRUE]

\* AEMUser.create_user; sc and ic answer the get_user_info that follows the
\* POST.
U_create_user(st, p, code, applied, sc, ic) ==
    IF st.end # Running THEN st
    ELSE IF ~p.check_mode
    THEN LET s1 == Sent(st, UReq("POST", "create",
                                 <<p.first_name, p.last_name>>, st.me.groups,
                                 st.me.password, code, applied))
             s2 == IF applied
                   THEN [s1 EXCEPT !.srv.user =
                            [exists |-> TRUE,
                             name |-> FullName(p.first_name, p.last_name),
                             groups |-> st.me.groups,
                             password |-> st.me.password]]
                   ELSE s1
             s3 == U_get_user_info(s2, sc, ic)
         IN IF s3.end # Running THEN s3
            ELSE IF code # 201 \/ ~s3.me.exists
            THEN Ended(s3, "fail", "failed to create user")
            ELSE [s3 EXCEPT !.me.changed = TRUE]
    ELSE [st EXCEPT !.me.changed = TRUE]

\* The POST of delete_user: the deleteAuthorizable flag, sent to path.
UDeleteReq(path, code, applied) ==
    [method |-> "POST", what |-> "delete", name |-> <<>>, groups |-> NoList,
     password |-> None, code |-> code, applied |-> applied, path |-> path]

\* delete_user that leaves self.changed alone
U_delete_user_unreported(st, p, code, applied) ==
    IF st.end # Running THEN st
    ELSE IF ~p.check_mode
    THEN LET s1 == Sent(st, UDeleteReq(st.me.path, code, applied))
             s2 == IF applied THEN [s1 EXCEPT !.srv.user = NoUser] ELSE s1
         IN IF code # 200 THEN Ended(s2, "fail", "failed to delete user")
            ELSE s2
    ELSE st

\* AEMUser.delete_user
U_delete_user(st, p, code, applied) ==
    IF st.end # Running THEN st
    ELSE IF ~p.check_mode
    THEN LET s1 == Sent(st, UDeleteReq(st.me.path, code, applied))
             s2 == IF applied THEN [s1 EXCEPT !.srv.user = NoUser] ELSE s1
         IN IF code # 200 THEN Ended(s2, "fail", "failed to delete user")
            ELSE [s2 EXCEPT !.me.changed = TRUE]
    ELSE [st EXCEPT !.me.changed = TRUE]

\* present, existing user: whether update_groups is called (both lists were
\* sorted before)
U_groups_differ(curr_groups, groups) == Join(curr_groups) # Join(groups)

\* present, existing user: the name checks before the groups are compared
U_present_name_check(st, p) ==
    IF p.first_name # None /\ p.last_name # None
    THEN IF st.me.curr_name # FullName(p.first_name, p.last_name)
         THEN "update_name" ELSE "ok"
    ELSE IF p.first_name # None /\ p.last_name = None
    THEN "Missing required argumanet: last_name"
    ELSE IF p.last_name # None /\ p.first_name = None
    THEN "Missing required argumanet: first_name"
    ELSE "ok"

\* present without curr_groups.sort()
U_sort_groups_param_only(st) ==
    IF st.end = Running /\ st.me.groups # <<>>
    THEN [st EXCEPT !.me.groups = Sort(@)]
    ELSE st

\* present, existing user: curr_groups.sort(), groups.sort()
U_sort_groups(st) ==
    IF st.end = Running /\ st.me.groups # <<>>
    THEN [st EXCEPT !.me.curr_groups = Sort(@), !.me.groups = Sort(@)]
    ELSE st

\* present, new user: the checks before create_user
U_present_create_check(st, p) ==
    LET s1 == IF st.me.password # None
              THEN IF U_check_password(st.me.password) THEN st
                   ELSE Ended(st, "fail", "Password too weak")
              ELSE [st EXCEPT !.me.password = GeneratedPassword]
    IN IF s1.end # Running THEN s1
       ELSE IF p.first_name = None
       THEN Ended(s1, "fail", "Missing required argument: first_name")
       ELSE IF p.last_name = None
       THEN Ended(s1, "fail", "Missing required argument: last_name")
       ELSE IF s1.me.groups = <<>>
       THEN Ended(s1, "fail", "Missing required argument: groups")
       ELSE s1

\* The users a server may hold when a behaviour starts.
ServerUsers ==
    {NoUser} \cup [exists : {TRUE}, name : {"Ann Lee", "Bob Ray"},
                   groups : GroupLists, password : {StrongPassword}]

Init_User ==
    /\ pc = "idle"
    /\ params \in [id : {"u"}, state : {"present", "absent"},
                   first_name : {None, "Ann"}, last_name : {None, "Lee"},
                   groups : {NoList} \cup GroupLists,
                   password : {None, WeakPassword, StrongPassword},
                   check_mode : BOOLEAN]
    /\ self = None
    /\ server \in [user : ServerUsers]
    /\ sent = <<>>
    /\ pre = None
    /\ hist = <<>>

\* The status codes the server answers with.
PostCodes == {200, 500}
CreateCodes == {201, 500}
GetCodes == {200, 503}

\* The variables after a method left the running invocation as st.
Continue(st, nextpc) ==
    /\ server' = st.srv
    /\ IF st.end # Running
       THEN Finished(st.end.outcome, FALSE, st.end.msg, st.log)
       ELSE /\ self' = st.me
            /\ sent' = st.log
            /\ pre' = IF pc = "idle" THEN server ELSE pre
            /\ pc' = nextpc
            /\ UNCHANGED hist

\* main: AEMUser(module). __init__ appends "everyone" to the groups list and
\* calls get_user_info; a groups parameter left at None raises TypeError.
AEMUser_init ==
    /\ pc = "idle"
    /\ Len(hist) < MaxRuns
    /\ IF params.groups = NoList
       THEN /\ Finished("crash", FALSE,
                        "TypeError: argument of type 'NoneType' is not iterable",
                        <<>>)
            /\ UNCHANGED server
       ELSE \E sc \in GetCodes :
            \E ic \in (IF sc = 200 /\ server.user.exists THEN GetCodes ELSE {200}) :
            LET me == [groups |-> IF Contains(params.groups, "everyone")
                                  THEN params.groups
                                  ELSE Append(params.groups, "everyone"),
                       password |-> params.password, changed |-> FALSE,
                       exists |-> FALSE, path |-> None, curr_name |-> None,
                       curr_groups |-> <<>>]
                st == [srv |-> server, log |-> <<>>, me |-> me, end |-> Running]
            IN Continue(U_get_user_info(st, sc, ic), params.state)
    /\ UNCHANGED params

\* The answers the server gives: 201 to a create that it accepts (only when
\* the id is free), 200 to another POST it accepts, 500 to a POST it rejects;
\* 200 or 503 to a GET. Only an accepted POST can have been applied.
UserAnswerOk(r, before) ==
    /\ r.method = "GET" => r.code \in {200, 503}
    /\ (r.method = "POST" /\ r.what = "create") =>
            /\ r.code \in {201, 500}
            /\ r.code = 201 => ~before.user.exists
    /\ (r.method = "POST" /\ r.what # "create") => r.code \in {200, 500}
    /\ r.applied => r.code \in {200, 201}

\* AEMUser.present, existing user, from the comparison of the groups on
U_present_groups(st) ==
    LET s2 == U_sort_groups(st) IN
    IF s2.end = Running /\ s2.me.groups # <<>>
       /\ U_groups_differ(s2.me.curr_groups, s2.me.groups)
       /\ ~params.check_mode
    THEN \E c2 \in PostCodes, a2 \in BOOLEAN :
            LET out == U_update_groups(s2, params, c2, a2) IN
            /\ \A i \in 1..Len(out.log) : UserAnswerOk(out.log[i], pre)
            /\ Continue(out, "exit_status")
    ELSE IF s2.end = Running /\ s2.me.groups # <<>>
            /\ U_groups_differ(s2.me.curr_groups, s2.me.groups)
    THEN Continue(U_update_groups(s2, params, 200, FALSE), "exit_status")
    ELSE Continue(s2, "exit_status")

\* main: user.present()
AEMUser_present ==
    /\ pc = "present"
    /\ LET st == [srv |-> server, log |-> sent, me |-> self, end |-> Running]
           check == U_present_name_check(st, params)
       IN IF self.exists
          THEN IF check = "update_name"
               THEN IF ~params.check_mode
                    THEN \E c1 \in PostCodes, a1 \in BOOLEAN :
                            /\ a1 => c1 = 200
                            /\ U_present_groups(U_update_name(st, params, c1, a1))
                    ELSE U_present_groups(U_update_name(st, params, 200, FALSE))
               ELSE IF check = "ok"
               THEN U_present_groups(st)
               ELSE Continue(Ended(st, "fail", check), "exit_status")
          ELSE LET s1 == U_present_create_check(st, params) IN
               IF s1.end = Running /\ ~params.check_mode
               THEN \E c1 \in CreateCodes, a1 \in BOOLEAN, sc \in GetCodes :
                      \E ic \in (IF sc = 200 THEN GetCodes ELSE {200}) :
                        LET out == U_create_user(s1, params, c1, a1, sc, ic) IN
                        /\ \A i \in 1..Len(out.log) : UserAnswerOk(out.log[i], pre)
                        /\ Continue(out, "exit_status")
               ELSE Continue(U_create_user(s1, params, 201, FALSE, 200, 200),
                             "exit_status")
    /\ UNCHANGED params

\* main: user.absent()
AEMUser_absent ==
    /\ pc = "absent"
    /\ LET st == [srv |-> server, log |-> sent, me |-> self, end |-> Running] IN
       IF self.exists /\ ~params.check_mode
       THEN \E c1 \in PostCodes, a1 \in BOOLEAN :
                /\ a1 => c1 = 200
                /\ Continue(U_delete_user(st, params, c1, a1), "exit_status")
       ELSE IF self.exists
       THEN Continue(U_delete_user(st, params, 200, FALSE), "exit_status")
       ELSE Continue(st, "exit_status")
    /\ UNCHANGED params

\* AEMUser.exit_status
AEMUser_exit_status ==
    /\ pc = "exit_status"
    /\ Finished("exit", self.changed, "", sent)
    /\ UNCHANGED <<params, server>>

Next_User ==
    \/ AEMUser_init
    \/ AEMUser_present
    \/ AEMUser_absent
    \/ AEMUser_exit_status

SpecUser == Init_User /\ [][Next_User]_vars

\* ======================================================================
\* library/aem_group.py
\* ======================================================================

MemberNames == {"g1", "administrators"}
\* The groups lists of a task: the lists of distinct member names.
MemberLists ==
    {l \in UNION {[1..n -> MemberNames] : n \in 0..Cardinality(MemberNames)} :
        \A i, j \in 1..Len(l) : l[i] = l[j] => i = j}
\* The member lists a group on the server may have when a behaviour starts.
ServerMemberLists == {<<>>, <<"G1">>, <<"administrators", "G1">>}

\* str(module.params[...])
Str(v) == IF v = None THEN "None" ELSE v

\* str.lower() of a joined list of names
Lower(joined) ==
    CASE joined = "G1" -> "g1"
      [] joined = "G1,administrators" -> "g1,administrators"
      [] joined = "G1,G1" -> "g1,g1"
      [] joined = "G1,G1,G1" -> "g1,g1,g1"
      [] joined = "G1,G1,administrators" -> "g1,g1,administrators"
      [] joined = "G1,administrators,administrators"
            -> "g1,administrators,administrators"
      [] OTHER -> joined

\* A list is truthy in Python when it is neither None nor empty.
Truthy(list) == list # NoList /\ list # <<>>

NoGroup == [exists |-> FALSE, name |-> "", members |-> <<>>, perms |-> {},
            inroot |-> FALSE]

\* A request of aem_group in the log.
GReq(method, what, arg, code, applied) ==
    [method |-> method, what |-> what, arg |-> arg, code |-> code,
     applied |-> applied]

\* The answers to the POSTs of a loop: "applied" (success, applied),
\* "ignored" (success, not applied), "error" (500).
AnswerKinds == {"applied", "ignored", "error"}
KindCode(k, ok) == IF k = "error" THEN 500 ELSE ok

\* AEMGroup.get_group_info
G_get_group_info(st, sc, ic) ==
    IF st.end # Running THEN st
    ELSE LET s1 == Sent(st, GReq("GET", "search", None, sc, FALSE))
         IN IF sc # 200 THEN Ended(s1, "fail", "Error searching for group")
            ELSE IF ~s1.srv.group.exists
            THEN [s1 EXCEPT !.me.exists = FALSE]
            ELSE LET s2 == Sent(s1, GReq("GET", "info", None, ic, FALSE))
                 IN IF ic = 200
                    THEN [s2 EXCEPT !.me.exists = TRUE,
                                    !.me.path = "/home/groups/g",
                                    !.me.curr_name = s2.srv.group.name,
                                    !.me.curr_groups = s2.srv.group.members]
                    ELSE [s2 EXCEPT !.me.exists = FALSE,
                                    !.me.path = "/home/groups/g"]

\* AEMGroup.create_group
G_create_group(st, p, code, applied, sc, ic) ==
    IF st.end # Running THEN st
    ELSE IF ~p.check_mode
    THEN LET s1 == Sent(st, GReq("POST", "create", st.me.name, code, applied))
             s2 == IF applied
                   THEN [s1 EXCEPT !.srv.group =
                            [exists |-> TRUE, name |-> st.me.name,
                             members |-> <<>>, perms |-> {},
                             inroot |-> FALSE]]
                   ELSE s1
             s3 == G_get_group_info(s2, sc, ic)
         IN IF s3.end # Running THEN s3
            ELSE IF code # 201 \/ ~s3.me.exists
            THEN Ended(s3, "fail", "failed to create group")
            ELSE [s3 EXCEPT !.me.changed = TRUE]
    ELSE [st EXCEPT !.me.changed = TRUE]

\* AEMGroup.update_name
G_update_name(st, p, code, applied) ==
    IF st.end # Running THEN st
    ELSE IF ~p.check_mode
    THEN LET s1 == Sent(st, GReq("POST", "update_name", st.me.name, code,
                                 applied))
             s2 == IF applied THEN [s1 EXCEPT !.srv.group.name = st.me.name]
                   ELSE s1
         IN IF code # 200 THEN Ended(s2, "fail", "failed to update name")
            ELSE [s2 EXCEPT !.me.changed = TRUE]
    ELSE [st EXCEPT !.me.changed = TRUE]

\* The member the POST of update_groups names for the group being added:
\* the literal "administrators" of the files argument.
G_member_entry(group) == "administrators"

\* addMembers as the server applies it
AddMember(members, m) == IF Contains(members, m) THEN members
                         ELSE Append(members, m)

\* The loop of update_groups from index i on: one POST per entry of groups.
RECURSIVE G_update_groups_loop(_, _, _)
G_update_groups_loop(st, i, ans) ==
    IF i > Len(st.me.groups) THEN st
    ELSE LET entry == G_member_entry(st.me.groups[i])
             s1 == Sent(st, GReq("POST", "update_groups", entry,
                                 KindCode(ans[i], 200), ans[i] = "applied"))
             s2 == IF ans[i] = "applied"
                   THEN [s1 EXCEPT !.srv.group.members = AddMember(@, entry)]
                   ELSE s1
         IN G_update_groups_loop(s2, i + 1, ans)

\* AEMGroup.update_groups; ans[i] answers the POST for groups[i]. Only the
\* status of the last POST is looked at.
G_update_groups(st, p, ans) ==
    IF st.end # Running THEN st
    ELSE IF ~p.check_mode /\ Truthy(st.me.groups)
    THEN LET s1 == G_update_groups_loop(st, 1, ans)
         IN IF s1.log[Len(s1.log)].code # 200
            THEN Ended(s1, "fail", "failed to update groups")
            ELSE [s1 EXCEPT !.me.changed = TRUE]
    ELSE [st EXCEPT !.me.changed = TRUE]

\* The loop of add_permissions from index i on.
RECURSIVE G_add_permissions_loop(_, _, _, _)
G_add_permissions_loop(st, p, i, ans) ==
    IF i > Len(st.me.permissions) \/ st.end # Running THEN st
    ELSE IF ~p.check_mode
    THEN LET perm == st.me.permissions[i]
             s1 == Sent(st, GReq("POST", "permission", perm,
                                 KindCode(ans[i], 200), ans[i] = "applied"))
             s2 == IF ans[i] = "applied"
                   THEN [s1 EXCEPT !.srv.group.perms = @ \cup {perm}]
                   ELSE s1
         IN IF s2.log[Len(s2.log)].code # 200 \/ ~s2.me.exists
            THEN Ended(s2, "fail", "failed to add permissions to a group")
            ELSE G_add_permissions_loop(s2, p, i + 1, ans)
    ELSE G_add_permissions_loop(st, p, i + 1, ans)

\* AEMGroup.add_permissions: iterating over a permissions parameter left at
\* None raises TypeError.
G_add_permissions(st, p, ans) ==
    IF st.end # Running THEN st
    ELSE IF st.me.permissions = NoList
    THEN Ended(st, "crash", "TypeError: 'NoneType' object is not iterable")
    ELSE G_add_permissions_loop(st, p, 1, ans)

\* AEMGroup.get_root_groups_path: one search per root group.
RECURSIVE G_get_root_groups_path(_, _, _)
G_get_root_groups_path(st, i, codes) ==
    IF i > Len(st.me.root_groups) \/ st.end # Running THEN st
    ELSE LET s1 == Sent(st, GReq("GET", "search_root", st.me.root_groups[i],
                                 codes[i], FALSE))
         IN IF codes[i] # 200
            THEN Ended(s1, "fail", "Error searching for root group")
            ELSE IF ~s1.srv.root_exists
            THEN [s1 EXCEPT !.me.exists = FALSE]
            ELSE G_get_root_groups_path(
                    [s1 EXCEPT !.me.root_groups_path =
                                    Append(@, st.me.root_groups[i])],
                    i + 1, codes)

\* AEMGroup.add_to_root_groups: one POST per path found.
RECURSIVE G_add_to_root_groups(_, _, _, _)
G_add_to_root_groups(st, p, i, ans) ==
    IF p.check_mode \/ i > Len(st.me.root_groups_path) \/ st.end # Running
    THEN st
    ELSE LET s1 == Sent(st, GReq("POST", "add_to_root",
                                 st.me.root_groups_path[i],
                                 KindCode(ans[i], 200), ans[i] = "applied"))
             s2 == IF ans[i] = "applied"
                   THEN [s1 EXCEPT !.srv.group.inroot = TRUE] ELSE s1
         IN IF s2.log[Len(s2.log)].code # 200
            THEN Ended(s2, "fail", "failed to add to root group")
            ELSE G_add_to_root_groups(s2, p, i + 1, ans)

\* AEMGroup.delete_group
G_delete_group(st, p, code, applied) ==
    IF st.end # Running THEN st
    ELSE IF ~p.check_mode
    THEN LET s1 == Sent(st, GReq("POST", "delete", None, code, applied))
             s2 == IF applied THEN [s1 EXCEPT !.srv.group = NoGroup] ELSE s1
         IN IF code # 200 THEN Ended(s2, "fail", "failed to delete group")
            ELSE [s2 EXCEPT !.me.changed = TRUE]
    ELSE [st EXCEPT !.me.changed = TRUE]

\* present, existing group: curr_groups.sort(), groups.sort()
G_sort_groups(st) ==
    IF st.end = Running /\ Truthy(st.me.groups)
    THEN [st EXCEPT !.me.curr_groups = Sort(@), !.me.groups = Sort(@)]
    ELSE st

\* present, existing group: whether update_groups is called
G_groups_differ(curr_groups, groups) ==
    Lower(Join(curr_groups)) # Lower(Join(groups))

ServerGroups ==
    {NoGroup} \cup [exists : {TRUE}, name : {"G", "Old"},
                    members : ServerMemberLists, perms : {{}},
                    inroot : {FALSE}]

GroupTasks ==
    {t \in [id : {"g"}, state : {"present"}, name : {None, "G"},
            groups : {NoList} \cup MemberLists,
            permissions : {NoList, <<"p1">>},
            root_groups : {NoList, <<"rg">>}, check_mode : BOOLEAN] :
        t.root_groups # NoList => t.permissions # NoList}
    \cup [id : {"g"}, state : {"absent"}, name : {None}, groups : {NoList},
          permissions : {NoList}, root_groups : {NoList},
          check_mode : BOOLEAN]

Init_Group ==
    /\ pc = "idle"
    /\ params \in GroupTasks
    /\ self = None
    /\ server \in [group : ServerGroups, root_exists : BOOLEAN]
    /\ sent = <<>>
    /\ pre = None
    /\ hist = <<>>

\* main: AEMGroup(module); __init__ calls get_group_info.
AEMGroup_init ==
    /\ pc = "idle"
    /\ Len(hist) < MaxRuns
    /\ \E sc \in GetCodes :
       \E ic \in (IF sc = 200 /\ server.group.exists THEN GetCodes ELSE {200}) :
        LET me == [name |-> Str(params.name), groups |-> params.groups,
                   permissions |-> params.permissions,
                   root_groups |-> params.root_groups, exists |-> FALSE,
                   root_groups_path |-> <<>>, changed |-> FALSE,
                   path |-> None, curr_name |-> None, curr_groups |-> <<>>]
            st == [srv |-> server, log |-> <<>>, me |-> me, end |-> Running]
        IN Continue(G_get_group_info(st, sc, ic), params.state)
    /\ UNCHANGED params

\* The answers to a loop of n POSTs (one answer when none is sent).
LoopAnswers(n, sends) ==
    IF sends THEN [1..n -> AnswerKinds] ELSE {[i \in 1..n |-> "ignored"]}
\* The same, for POSTs the server either applies or rejects.
LoopAnswers2(n, sends) ==
    IF sends THEN [1..n -> {"applied", "error"}]
    ELSE {[i \in 1..n |-> "ignored"]}

\* present, from "if self.root_groups:" on
G_present_roots(st) ==
    IF st.end = Running /\ Truthy(st.me.root_groups)
    THEN \E codes \in [1..Len(st.me.root_groups) -> GetCodes] :
            LET s1 == G_get_root_groups_path(st, 1, codes) IN
            \E ans \in LoopAnswers2(Len(s1.me.root_groups_path),
                                   s1.end = Running /\ ~params.check_mode) :
                Continue(G_add_to_root_groups(s1, params, 1, ans), "exit_status")
    ELSE Continue(st, "exit_status")

\* present, from add_permissions() on
G_present_permissions(st) ==
    IF st.end = Running /\ st.me.permissions # NoList
    THEN \E ans \in LoopAnswers2(Len(st.me.permissions), ~params.check_mode) :
            G_present_roots(G_add_permissions(st, params, ans))
    ELSE G_present_roots(G_add_permissions(st, params, <<>>))

\* present, existing group, from "if self.groups:" on
G_present_groups(st) ==
    LET s2 == G_sort_groups(st) IN
    IF s2.end = Running /\ Truthy(s2.me.groups)
       /\ G_groups_differ(s2.me.curr_groups, s2.me.groups)
    THEN \E ans \in LoopAnswers(Len(s2.me.groups), ~params.check_mode) :
            G_present_permissions(G_update_groups(s2, params, ans))
    ELSE G_present_permissions(s2)

\* main: group.present()
AEMGroup_present ==
    /\ pc = "present"
    /\ LET st == [srv |-> server, log |-> sent, me |-> self, end |-> Running]
       IN IF self.exists
          THEN IF self.name # "" /\ self.curr_name # self.name
               THEN \E k \in (IF params.check_mode THEN {"ignored"}
                              ELSE AnswerKinds) :
                        G_present_groups(G_update_name(st, params,
                                            KindCode(k, 200), k = "applied"))
               ELSE G_present_groups(st)
          ELSE IF self.name = ""
               THEN Continue(Ended(st, "fail", "Missing required argument: name"),
                             "exit_status")
               ELSE \E k \in (IF params.check_mode THEN {"ignored"}
                              ELSE AnswerKinds),
                       sc \in (IF params.check_mode THEN {200} ELSE GetCodes) :
                    \E ic \in (IF sc = 200 /\ ~params.check_mode THEN GetCodes
                               ELSE {200}) :
                       /\ (k # "error" /\ ~params.check_mode)
                                => ~server.group.exists
                       /\ G_present_permissions(
                            G_create_group(st, params, KindCode(k, 201),
                                           k = "applied", sc, ic))
    /\ UNCHANGED params

\* main: group.absent()
AEMGroup_absent ==
    /\ pc = "absent"
    /\ LET st == [srv |-> server, log |-> sent, me |-> self, end |-> Running] IN
       IF self.exists
       THEN \E k \in (IF params.check_mode THEN {"ignored"} ELSE AnswerKinds) :
                Continue(G_delete_group(st, params, KindCode(k, 200),
                                        k = "applied"), "exit_status")
       ELSE Continue(st, "exit_status")
    /\ UNCHANGED params

\* AEMGroup.exit_status
AEMGroup_exit_status ==
    /\ pc = "exit_status"
    /\ Finished("exit", self.changed, "", sent)
    /\ UNCHANGED <<params, server>>

Next_Group ==
    \/ AEMGroup_init
    \/ AEMGroup_present
    \/ AEMGroup_absent
    \/ AEMGroup_exit_status

SpecGroup == Init_Group /\ [][Next_Group]_vars

\* ======================================================================
\* aem_osgi.py
\* ======================================================================

\* Longest array of a property or of a value.
MaxArr == 2
Items == {"a", "b"}
Arrays == UNION {[1..n -> Items] : n \in 0..MaxArr}
Scalars == {"x", "y"}

\* sorted(set(list)): the sorted list of the distinct items
RECURSIVE Uniq(_)
Uniq(s) == IF s = <<>> THEN <<>>
           ELSE IF Contains(Tail(s), Head(s)) THEN Uniq(Tail(s))
           ELSE <<Head(s)>> \o Uniq(Tail(s))
SortedSet(s) == Sort(Uniq(s))

\* A property of a configuration as info['properties'] holds it: a dict with
\* the key 'value' (scalar) or 'values' (array).
ScalarProp(v) == [kind |-> "value", value |-> v, values |-> <<>>]
ArrayProp(vs) == [kind |-> "values", value |-> "", values |-> vs]

\* A request of aem_osgi in the log; fields maps the posted field names to
\* their values.
OReq(method, what, fields, code, applied) ==
    [method |-> method, what |-> what, fields |-> fields, code |-> code,
     applied |-> applied]
NoFields == [propertylist |-> {}]

\* modevalue.get(osgimode)
modevalue(mode) == IF mode = "string" THEN "value" ELSE "values"

\* do_update comparing the sorted current array with the value as given
O_do_update_value_unsorted(mode, current, value) ==
    CASE mode = "arrayappend" -> SortedSet(Sort(current \o value)) # current
      [] mode = "array" -> Sort(current) # value
      [] OTHER -> current # value

\* AEMOsgi.present, string / array / arrayappend: do_update. current is
\* sorted(curr_props[property]['values']) for an array, the value itself for a
\* scalar.
O_do_update(mode, current, value) ==
    CASE mode = "arrayappend" -> SortedSet(Sort(current \o value)) # current
      [] mode = "array" -> Sort(current) # Sort(value)
      [] OTHER -> current # value

\* update_property, arrayappend: the items of value not yet in the list are
\* appended to it.
RECURSIVE O_append_new(_, _)
O_append_new(list, value) ==
    IF value = <<>> THEN list
    ELSE O_append_new(IF Contains(list, Head(value)) THEN list
                      ELSE Append(list, Head(value)), Tail(value))

\* update_property giving every property the value of the target
O_posted_value_for_all(p, curr_props, i) ==
    IF p.osgimode = "arrayappend"
    THEN ArrayProp(O_append_new(curr_props[p.property].values,
                                p.value.values))
    ELSE IF p.osgimode = "array" THEN ArrayProp(p.value.values)
    ELSE ScalarProp(p.value.value)

\* update_property: the value posted for property i
O_posted_value(p, curr_props, i) ==
    LET cp == curr_props[i] IN
    IF i = p.property
    THEN IF p.osgimode = "arrayappend"
         THEN ArrayProp(O_append_new(cp.values, p.value.values))
         ELSE IF p.osgimode = "array" THEN ArrayProp(p.value.values)
         ELSE ScalarProp(p.value.value)
    ELSE cp

\* AEMOsgi.update_property: in check mode nothing is sent and changed stays
\* False.
O_update_property(st, p, code, applied) ==
    IF st.end # Running THEN st
    ELSE IF ~p.check_mode
    THEN LET cur == st.me.curr_props
             fields == [i \in DOMAIN cur |-> O_posted_value(p, cur, i)]
             s1 == Sent(st, OReq("POST", "update",
                                 [props |-> fields,
                                  propertylist |-> DOMAIN cur],
                                 code, applied))
             s2 == IF applied THEN [s1 EXCEPT !.srv.props = fields] ELSE s1
         IN IF code # 200
            THEN Ended(s2, "fail", "failed to update property")
            ELSE [s2 EXCEPT !.me.changed = TRUE]
    ELSE st

\* ---- factory mode

\* Most instances of the factory on the server when a behaviour starts.
MaxInst == 2
\* The key is not among the fields of the instance.
NoKey == "<no such key>"

\* A value of the desired dict as yaml.load returns it: its Python type, its
\* text (str(v)) and, for a list, its items.
PyStr(text) == [t |-> "str", s |-> text, l |-> <<>>]
PyInt(text) == [t |-> "int", s |-> text, l |-> <<>>]
PyFloat(text) == [t |-> "float", s |-> text, l |-> <<>>]
PyList(items) == [t |-> "list", s |-> "", l |-> items]
NoValue == [t |-> "absent", s |-> "", l |-> <<>>]

\* ', '.join(list)
RECURSIVE JoinCommaSpace(_)
JoinCommaSpace(s) == IF s = <<>> THEN ""
                     ELSE IF Len(s) = 1 THEN s[1]
                     ELSE s[1] \o ", " \o JoinCommaSpace(Tail(s))
\* str(v).replace("'", "") of a list of strings
ListText(items) == "[" \o JoinCommaSpace(items) \o "]"

FactoryKeys == {"k1", "k2"}
ValueKeys(value) == {k \in FactoryKeys : value[k] # NoValue}

\* find_factory_match: the desired value v as it is compared with the
\* field d[k] of an instance. An int becomes str(v), a list its text without
\* quotes, a str stays; any other Python value is compared as it is and
\* equals no string.
O_value_matches(v, field) ==
    CASE v.t = "int" -> v.s = field
      [] v.t = "list" -> ListText(v.l) = field
      [] v.t = "str" -> v.s = field
      [] OTHER -> FALSE

\* The text the server stores and lists for a posted value: the form-encoded
\* field, an array for a list.
StoredText(v) == IF v.t = "list" THEN ListText(v.l) ELSE v.s

\* The instance the server makes of the fields of a create POST.
NewInstance(value) ==
    [k \in FactoryKeys |->
        IF value[k] = NoValue THEN NoKey ELSE StoredText(value[k])]

\* str.strip() of the text right of the '=' of a line of Configurations.txt
Strip(text) == IF text = " debug" THEN "debug" ELSE text
\* kvp.strip().split('=') gives more than two parts
SplitFails(text) == text = "a=b"

\* find_factory: the instances parsed from Configurations.txt, or ValueError
\* when a line does not split in two at '='.
O_parse_fails(instances) ==
    \E i \in 1..Len(instances) : \E k \in FactoryKeys :
        SplitFails(instances[i][k])
O_parse(instances) ==
    [i \in 1..Len(instances) |->
        [k \in FactoryKeys |-> Strip(instances[i][k])]]

\* AEMOsgi.find_factory: factory_instances is replaced only when the listing
\* holds an instance.
O_find_factory(st, code) ==
    IF st.end # Running THEN st
    ELSE LET s1 == Sent(st, OReq("GET", "list", NoFields, code, FALSE))
         IN IF code # 200 THEN Ended(s1, "fail", "Requests failed")
            ELSE IF O_parse_fails(s1.srv.instances)
            THEN Ended(s1, "crash", "ValueError")
            ELSE IF s1.srv.instances = <<>> THEN s1
            ELSE [s1 EXCEPT !.me.factory_instances = O_parse(s1.srv.instances)]

\* The instances of find_factory_match whose fields equal the desired value.
O_matches(instances, value) ==
    {i \in 1..Len(instances) :
        \A k \in ValueKeys(value) : O_value_matches(value[k], instances[i][k])}

\* AEMOsgi.find_factory_match: factory_instances is still the empty list of
\* __init__ when no instance was ever listed, and a list has no iteritems;
\* d[k] raises KeyError for a key the instance does not have; more than one
\* match is fatal.
O_find_factory_match(st, p) ==
    IF st.end # Running THEN st
    ELSE LET inst == st.me.factory_instances
             m == O_matches(inst, p.value)
         IN IF inst = <<>> THEN Ended(st, "crash", "AttributeError")
            ELSE IF \E i \in 1..Len(inst) : \E k \in ValueKeys(p.value) :
                    inst[i][k] = NoKey
            THEN Ended(st, "crash", "KeyError")
            ELSE IF Cardinality(m) = 0 THEN [st EXCEPT !.me.matched = FALSE]
            ELSE IF Cardinality(m) = 1
            THEN [st EXCEPT !.me.matched = TRUE,
                            !.me.factory = CHOOSE i \in m : TRUE]
            ELSE Ended(st, "fail", "matches more than one existing factories")

\* AEMOsgi.create_factory; gcode answers the find_factory after the POST.
O_create_factory(st, p, code, applied, gcode) ==
    IF st.end # Running \/ p.check_mode THEN st
    ELSE LET s1 == Sent(st, OReq("POST", "create",
                                 [props |-> NewInstance(p.value),
                                  propertylist |-> ValueKeys(p.value)],
                                 code, applied))
             s2 == IF applied
                   THEN [s1 EXCEPT !.srv.instances =
                                        Append(@, NewInstance(p.value))]
                   ELSE s1
         IN IF code # 200 THEN Ended(s2, "fail", "failed to create factory")
            ELSE O_find_factory_match(
                    O_find_factory([s2 EXCEPT !.me.changed = TRUE], gcode), p)

\* the sequence without its i-th element
Remove(seq, i) == SubSeq(seq, 1, i - 1) \o SubSeq(seq, i + 1, Len(seq))

\* AEMOsgi.delete_factory
O_delete_factory(st, p, code, applied) ==
    IF st.end # Running \/ p.check_mode THEN st
    ELSE LET s1 == Sent(st, OReq("POST", "delete",
                                 [pid |-> st.me.factory,
                                  propertylist |-> {}], code, applied))
             s2 == IF applied
                   THEN [s1 EXCEPT !.srv.instances = Remove(@, st.me.factory)]
                   ELSE s1
         IN IF code # 200 THEN Ended(s2, "fail", "failed to delete")
            ELSE [s2 EXCEPT !.me.changed = TRUE]

\* The instances of the factory a server may hold when a behaviour starts.
InstancePool == [k1 : {"debug", "1"}, k2 : {"debug", NoKey}]
ServerInstances == UNION {[1..n -> InstancePool] : n \in 0..MaxInst}

FactoryValues ==
    [k1 : {PyStr("debug"), PyStr("a=b"), PyInt("1"), PyFloat("1.5"),
           PyList(<<"a", "b">>)},
     k2 : {NoValue, PyStr("debug")}]

FactoryTasks ==
    [id : {"factory.config"}, state : {"present", "absent"},
     property : {"factory"}, osgimode : {"factory"}, value : FactoryValues,
     check_mode : BOOLEAN]

\* The configurations a server may hold when a behaviour starts: the target
\* property p, an array or a scalar, and another property q.
OtherProps == {ScalarProp("qv"), ArrayProp(<<"b", "a">>)}
ServerProps ==
    {[p |-> ArrayProp(vs), q |-> o] : vs \in Arrays, o \in OtherProps}
    \cup {[p |-> ScalarProp(v), q |-> o] : v \in Scalars, o \in OtherProps}

PropertyTasks ==
    [id : {"cfg"}, state : {"present", "absent"}, property : {"p"},
     osgimode : {"array", "arrayappend"}, value : {ArrayProp(vs) : vs \in Arrays},
     check_mode : BOOLEAN]
    \cup [id : {"cfg"}, state : {"present", "absent"}, property : {"p"},
          osgimode : {"string"}, value : {ScalarProp(v) : v \in Scalars},
          check_mode : BOOLEAN]

DefaultProps == [p |-> ArrayProp(<<>>), q |-> ScalarProp("qv")]

Init_Osgi ==
    /\ pc = "idle"
    /\ \/ /\ params \in PropertyTasks
          /\ server \in [props : ServerProps, instances : {<<>>}]
       \/ /\ params \in FactoryTasks
          /\ server \in [props : {DefaultProps}, instances : ServerInstances]
    /\ self = None
    /\ sent = <<>>
    /\ pre = None
    /\ hist = <<>>

\* AEMOsgi.get_osgi_info, string / array / arrayappend: the configuration is
\* fetched with a POST to configMgr/<id>.
O_get_osgi_info(st, p, code) ==
    IF p.osgimode = "factory" THEN O_find_factory(st, code)
    ELSE LET s1 == Sent(st, OReq("POST", "fetch", NoFields, code, FALSE))
         IN IF code # 200
            THEN Ended(s1, "fail", "Error searching for osgi id")
            ELSE [s1 EXCEPT !.me.curr_props = s1.srv.props]

\* main: AEMOsgi(module); __init__ calls get_osgi_info.
AEMOsgi_init ==
    /\ pc = "idle"
    /\ Len(hist) < MaxRuns
    /\ \E code \in GetCodes :
        LET me == [changed |-> FALSE, curr_props |-> <<>>,
                   factory_instances |-> <<>>, factory |-> 0,
                   matched |-> FALSE]
            st == [srv |-> server, log |-> <<>>, me |-> me, end |-> Running]
        IN Continue(O_get_osgi_info(st, params, code), params.state)
    /\ UNCHANGED params

\* present, osgimode factory: an instance is created unless exactly one
\* matches.
O_present_factory(st) ==
    LET s1 == IF st.me.factory_instances # <<>>
              THEN O_find_factory_match(st, params) ELSE st
    IN IF s1.end = Running /\ ~s1.me.matched /\ ~params.check_mode
       THEN \E k \in AnswerKinds, gcode \in GetCodes :
                /\ (k = "error" => gcode = 200)
                /\ Continue(O_create_factory(s1, params, KindCode(k, 200),
                                             k = "applied", gcode),
                            "exit_status")
       ELSE IF s1.end = Running /\ ~s1.me.matched
       THEN Continue(O_create_factory(s1, params, 200, FALSE, 200),
                     "exit_status")
       ELSE Continue(s1, "exit_status")

\* absent, osgimode factory
O_absent_factory(st) ==
    LET s1 == IF st.me.factory_instances # <<>>
              THEN O_find_factory_match(st, params) ELSE st
    IN IF s1.end = Running /\ s1.me.matched /\ ~params.check_mode
       THEN \E k \in AnswerKinds :
                Continue(O_delete_factory(s1, params, KindCode(k, 200),
                                          k = "applied"), "exit_status")
       ELSE IF s1.end = Running /\ s1.me.matched
       THEN Continue(O_delete_factory(s1, params, 200, FALSE), "exit_status")
       ELSE Continue(s1, "exit_status")

\* present, string / array / arrayappend. Reading
\* curr_props[property]['value'] of an array, or ['values'] of a scalar,
\* raises KeyError.
O_present_property(st) ==
    LET cp == self.curr_props[params.property]
        array == modevalue(params.osgimode) = "values"
        current == IF array THEN Sort(cp.values) ELSE cp.value
        value == IF array THEN params.value.values ELSE params.value.value
    IN IF cp.kind # modevalue(params.osgimode)
       THEN Continue(Ended(st, "crash", "KeyError"), "exit_status")
       ELSE IF O_do_update(params.osgimode, current, value)
       THEN \E k \in (IF params.check_mode THEN {"ignored"}
                      ELSE AnswerKinds) :
             Continue(O_update_property(st, params, KindCode(k, 200),
                                        k = "applied"), "exit_status")
       ELSE Continue(st, "exit_status")

\* main: osgi.present()
AEMOsgi_present ==
    /\ pc = "present"
    /\ LET st == [srv |-> server, log |-> sent, me |-> self, end |-> Running]
       IN IF params.osgimode = "factory" THEN O_present_factory(st)
          ELSE O_present_property(st)
    /\ UNCHANGED params

\* main: osgi.absent()
AEMOsgi_absent ==
    /\ pc = "absent"
    /\ LET st == [srv |-> server, log |-> sent, me |-> self, end |-> Running]
       IN IF params.osgimode = "factory" THEN O_absent_factory(st)
          ELSE Continue(Ended(st, "fail",
                              "State \"absent\" is not supported yet, sorry"),
                        "exit_status")
    /\ UNCHANGED params

\* AEMOsgi.exit_status
AEMOsgi_exit_status ==
    /\ pc = "exit_status"
    /\ Finished("exit", self.changed, "", sent)
    /\ UNCHANGED <<params, server>>

Next_Osgi ==
    \/ AEMOsgi_init
    \/ AEMOsgi_present
    \/ AEMOsgi_absent
    \/ AEMOsgi_exit_status

SpecOsgi == Init_Osgi /\ [][Next_Osgi]_vars

\* ======================================================================
\* library/aem_packmgr.py
\* ======================================================================

\* The packages: the name the server gives a package is the name in the
\* package's own properties, and its downloadName follows from it.
PackageNames == {"test-all", "other"}
DownloadName(name) == name \o "-2.2-SNAPSHOT.zip"
\* The package files of the control host and the package each holds.
PackagePaths == {"/home/vagrant/test-all-2.2-SNAPSHOT.zip",
                 "/home/vagrant/other-2.2-SNAPSHOT.zip"}
PackageIn(path) ==
    IF path = "/home/vagrant/test-all-2.2-SNAPSHOT.zip" THEN "test-all"
    ELSE "other"

\* A request of aem_packmgr and its answer; code is the code attribute of
\* response/status in the answer.
PReq(method, what, name, code, applied) ==
    [method |-> method, what |-> what, name |-> name, code |-> code,
     applied |-> applied]

\* _pgk_exist, from the parsed answer on: the name is among the names or
\* among the downloadNames of the listed packages.
pgk_exist_names_only(packages, int_pkg_name) ==
    LET packages_list == {n \in PackageNames : packages[n] # "absent"}
    IN int_pkg_name \in packages_list
pgk_exist(packages, int_pkg_name) ==
    LET packages_list == {n \in PackageNames : packages[n] # "absent"}
        download_names == {DownloadName(n) : n \in packages_list}
    IN int_pkg_name \in packages_list \/ int_pkg_name \in download_names

\* How the server answers cmd=ls: with the list of its packages, with a body
\* that is no XML (ET.fromstring raises ParseError), or with an XML body
\* without packages. The status code of the answer is not looked at.
ListAnswers == {"list", "garbled", "empty"}

\* _pgk_exist
P_pgk_exist(st, int_pkg_name, ans) ==
    LET s1 == Sent(st, PReq("GET", "ls", int_pkg_name,
                            IF ans = "list" THEN 200 ELSE 503, FALSE))
    IN IF ans = "garbled" THEN Ended(s1, "crash", "ParseError")
       ELSE [s1 EXCEPT !.me.exist = ans = "list"
                            /\ pgk_exist(s1.srv.packages, int_pkg_name)]

\* _pkg_validate returning True whatever the answer
P_pkg_validate_any(st, file_name, code) ==
    LET s1 == Sent(st, PReq("POST", "validate", file_name, code, FALSE))
    IN [s1 EXCEPT !.me.valid = TRUE]

\* _pkg_validate
P_pkg_validate(st, file_name, code) ==
    LET s1 == Sent(st, PReq("POST", "validate", file_name, code, FALSE))
    IN [s1 EXCEPT !.me.valid = code = 200]

\* What the server does with a package when it applies a request.
PackageAfter(what, state) ==
    CASE what = "upload" -> IF state = "absent" THEN "uploaded" ELSE state
      [] what = "inst" -> IF state = "absent" THEN state ELSE "installed"
      [] what = "rm" -> "absent"
      [] OTHER -> state

\* One POST of cmd=inst / cmd=rm or of the upload, for the package name.
P_post(st, what, name, k) ==
    LET s1 == Sent(st, PReq("POST", what, name, KindCode(k, 200),
                            k = "applied"))
    IN IF k = "applied" /\ name \in PackageNames
       THEN [s1 EXCEPT !.srv.packages[name] = PackageAfter(what, @)]
       ELSE s1

\* _pkg_remove returning True whatever the answer
P_pkg_remove_any(st, int_pkg_name, k) ==
    [P_post(st, "rm", int_pkg_name, k) EXCEPT !.me.removed = TRUE]

\* _pkg_remove
P_pkg_remove(st, int_pkg_name, k) ==
    [P_post(st, "rm", int_pkg_name, k) EXCEPT !.me.removed = k # "error"]

\* _pkg_install sending the install again when it failed
P_pkg_install_retry(st, file_name, file_path, uk, ik, rk) ==
    LET int_pkg_name == PackageIn(file_path)
        s1 == Sent(st, PReq("POST", "upload", file_name, KindCode(uk, 200),
                            uk = "applied"))
        s2 == IF uk = "applied"
              THEN [s1 EXCEPT !.srv.packages[int_pkg_name] =
                                    PackageAfter("upload", @)]
              ELSE s1
    IN IF uk = "error" THEN [s2 EXCEPT !.me.installed = FALSE]
       ELSE LET s3 == P_post(s2, "inst", int_pkg_name, ik)
            IN IF ik # "error" THEN [s3 EXCEPT !.me.installed = TRUE]
               ELSE [P_post(s3, "inst", int_pkg_name, rk)
                        EXCEPT !.me.installed = rk # "error"]

\* _pkg_install: the upload, then the install of the package under the name
\* the upload's answer gives it; a failed install removes the upload.
P_pkg_install(st, file_name, file_path, uk, ik, rk) ==
    LET int_pkg_name == PackageIn(file_path)
        s1 == Sent(st, PReq("POST", "upload", file_name, KindCode(uk, 200),
                            uk = "applied"))
        s2 == IF uk = "applied"
              THEN [s1 EXCEPT !.srv.packages[int_pkg_name] =
                                    PackageAfter("upload", @)]
              ELSE s1
    IN IF uk = "error" THEN [s2 EXCEPT !.me.installed = FALSE]
       ELSE LET s3 == P_post(s2, "inst", int_pkg_name, ik)
            IN IF ik # "error" THEN [s3 EXCEPT !.me.installed = TRUE]
               ELSE [P_pkg_remove(s3, int_pkg_name, rk)
                        EXCEPT !.me.installed = FALSE]

PackmgrTasks ==
    [state : {"present", "absent"},
     pkg_name : {"test-all", "test-all-2.2-SNAPSHOT.zip"},
     pkg_path : PackagePaths, aem_force : BOOLEAN, pkg_validate : BOOLEAN]

Init_Packmgr ==
    /\ pc = "idle"
    /\ params \in PackmgrTasks
    /\ self = None
    /\ server \in [packages :
                    [PackageNames -> {"absent", "uploaded", "installed"}]]
    /\ sent = <<>>
    /\ pre = None
    /\ hist = <<>>

\* main, up to the condition of the branch of the state: _pgk_exist is called
\* for present unless aem_force, and for absent.
AEMPackmgr_main ==
    /\ pc = "idle"
    /\ Len(hist) < MaxRuns
    /\ LET me == [state_changed |-> FALSE, message |-> "no changes",
                  exist |-> FALSE, valid |-> FALSE, installed |-> FALSE,
                  removed |-> FALSE]
           st == [srv |-> server, log |-> <<>>, me |-> me, end |-> Running]
       IN IF params.state = "present" /\ params.aem_force
          THEN Continue(st, "install")
          ELSE \E ans \in ListAnswers :
                LET s1 == P_pgk_exist(st, params.pkg_name, ans)
                IN Continue(s1,
                        IF s1.end # Running THEN "exit_json"
                        ELSE IF params.state = "present" /\ ~s1.me.exist
                        THEN "install"
                        ELSE IF params.state = "absent" /\ s1.me.exist
                        THEN "remove"
                        ELSE "exit_json")
    /\ UNCHANGED params

\* main, the branch of present after _pkg_install returned
P_installed(st) ==
    IF st.me.installed
    THEN Continue([st EXCEPT !.me.state_changed = TRUE,
                             !.me.message = "Installation package "
                                 \o params.pkg_name \o " was successful"],
                  "exit_json")
    ELSE Continue(Ended(st, "fail", "Installation package "
                                    \o params.pkg_name \o " is failed"),
                  "exit_json")

\* main, the branch of present from _pkg_install on
P_install(st) ==
    \E uk \in AnswerKinds :
        IF uk = "error"
        THEN P_installed(P_pkg_install(st, params.pkg_name, params.pkg_path,
                                       uk, "ignored", "ignored"))
        ELSE \E ik \in AnswerKinds :
            IF ik # "error"
            THEN P_installed(P_pkg_install(st, params.pkg_name,
                                           params.pkg_path, uk, ik, "ignored"))
            ELSE \E rk \in {"applied", "error"} :
                P_installed(P_pkg_install(st, params.pkg_name,
                                          params.pkg_path, uk, ik, rk))

\* main, the branch of present: the validation when pkg_validate, then
\* _pkg_install.
AEMPackmgr_install ==
    /\ pc = "install"
    /\ LET st == [srv |-> server, log |-> sent, me |-> self, end |-> Running]
       IN IF params.pkg_validate
          THEN \E code \in PostCodes :
                LET s1 == P_pkg_validate(st, params.pkg_name, code)
                IN IF s1.me.valid THEN P_install(s1)
                   ELSE Continue(Ended(s1, "fail", "validation of  package "
                                       \o params.pkg_name \o " is failed"),
                                 "exit_json")
          ELSE P_install(st)
    /\ UNCHANGED params

\* main, the branch of absent: _pkg_remove
AEMPackmgr_remove ==
    /\ pc = "remove"
    /\ LET st == [srv |-> server, log |-> sent, me |-> self, end |-> Running]
       IN \E k \in {"applied", "error"} :
            LET s1 == P_pkg_remove(st, params.pkg_name, k)
            IN IF s1.me.removed
               THEN Continue([s1 EXCEPT !.me.state_changed = TRUE,
                                        !.me.message = "Removing package "
                                            \o params.pkg_name
                                            \o " was successful"],
                             "exit_json")
               ELSE Continue(Ended(s1, "fail", "Removing package "
                                   \o params.pkg_name \o " is failed"),
                             "exit_json")
    /\ UNCHANGED params

\* main: module.exit_json(changed=state_changed, msg=message)
AEMPackmgr_exit_json ==
    /\ pc = "exit_json"
    /\ Finished("exit", self.state_changed, self.message, sent)
    /\ UNCHANGED <<params, server>>

Next_Packmgr ==
    \/ AEMPackmgr_main
    \/ AEMPackmgr_install
    \/ AEMPackmgr_remove
    \/ AEMPackmgr_exit_json

SpecPackmgr == Init_Packmgr /\ [][Next_Packmgr]_vars

\* ----------------------------------------------------------------------
\* Properties of aem_user.py

\* C3: aem_user state=present is idempotent. When an invocation (not in check
\* mode) ended normally against a server that applied every POST it answered
\* with success, the next invocation with the same parameters, answered
\* without server failures, exits with changed=false and issues no POST,
\* whether or not the user existed before the first invocation.
C3_UserPresentIdempotent ==
    \A i \in 1..(Len(hist) - 1) :
        (params.state = "present" /\ ~params.check_mode
         /\ hist[i].outcome = "exit" /\ Faithful(hist[i])
         /\ NoOutage(hist[i+1])) =>
            /\ hist[i+1].outcome = "exit"
            /\ hist[i+1].changed = FALSE
            /\ Count(hist[i+1].sent, IsPost) = 0

\* the first run created the user with two groups given out of order, the
\* second run found nothing to do
C3_Witness ==
    /\ Len(hist) = 2
    /\ params.state = "present" /\ ~params.check_mode
    /\ params.groups = <<"g1", "everyone">>
    /\ ~hist[1].pre.user.exists
    /\ hist[1].outcome = "exit" /\ hist[1].changed /\ Faithful(hist[1])
    /\ hist[2].outcome = "exit" /\ ~hist[2].changed

\* the first run renamed an existing user and replaced its groups
C3_WitnessUpdate ==
    /\ Len(hist) = 2
    /\ params.state = "present" /\ ~params.check_mode
    /\ hist[1].pre.user.exists
    /\ Count(hist[1].sent, IsPost) = 2
    /\ hist[1].outcome = "exit" /\ hist[1].changed /\ Faithful(hist[1])
    /\ hist[2].outcome = "exit" /\ ~hist[2].changed

\* ----------------------------------------------------------------------
\* Properties of library/aem_group.py

\* C4: aem_group state=present is idempotent. When an invocation (not in check
\* mode) ended normally against a server that applied every POST it answered
\* with success, the next invocation with the same id, name and groups,
\* answered without server failures, reports changed=false, both when the
\* group did not exist before and when it existed with other members.
C4_GroupPresentIdempotent ==
    \A i \in 1..(Len(hist) - 1) :
        (params.state = "present" /\ ~params.check_mode
         /\ hist[i].outcome = "exit" /\ Faithful(hist[i])
         /\ NoOutage(hist[i+1])) =>
            /\ hist[i+1].outcome = "exit"
            /\ hist[i+1].changed = FALSE

\* ----------------------------------------------------------------------
\* Properties of aem_osgi.py

IsUpdate(r) == r.what = "update"
\* every item of the task's value is in the array the invocation found
AllContained(h) ==
    \A j \in 1..Len(params.value.values) :
        Contains(h.pre.props.p.values, params.value.values[j])

\* C5: arrayappend appends only once. Whenever every item of the value is
\* already in the property's current array (also an array holding an item
\* more than once), state=present with osgimode=arrayappend issues no update
\* POST and reports changed=false.
C5_ArrayAppendOnce ==
    \A i \in 1..Len(hist) :
        LET h == hist[i] IN
        (params.osgimode = "arrayappend" /\ params.state = "present"
         /\ h.pre.props.p.kind = "values" /\ h.sent[1].code = 200
         /\ AllContained(h)) =>
            /\ Count(h.sent, IsUpdate) = 0
            /\ h.outcome = "exit"
            /\ h.changed = FALSE

IsCreate(r) == r.what = "create"
\* the invocation created an instance: its create POST was answered 200 and
\* the server stored the posted fields
CreatedInstance(h) ==
    \E j \in 1..Len(h.sent) :
        IsCreate(h.sent[j]) /\ h.sent[j].code = 200 /\ h.sent[j].applied

\* C6: factory creation is idempotent. If an invocation with state=present
\* and osgimode=factory created an instance, the next invocation with the
\* same id and value, on a server that answers its requests, ends normally,
\* issues no create POST and reports changed=false.
C6_FactoryCreateIdempotent ==
    \A i \in 1..(Len(hist) - 1) :
        (params.osgimode = "factory" /\ params.state = "present"
         /\ CreatedInstance(hist[i]) /\ NoOutage(hist[i+1])) =>
            /\ hist[i+1].outcome = "exit"
            /\ Count(hist[i+1].sent, IsCreate) = 0
            /\ hist[i+1].changed = FALSE

\* ----------------------------------------------------------------------
\* Properties of library/aem_packmgr.py

IsUpload(r) == r.what = "upload"
IsInstall(r) == r.what = "inst"
\* the invocation uploaded and installed the package: both POSTs were answered
\* with code 200 and applied by the server, and it ended with changed=true
UploadedAndInstalled(h) ==
    /\ h.outcome = "exit" /\ h.changed
    /\ \E j \in 1..Len(h.sent) :
        IsUpload(h.sent[j]) /\ h.sent[j].code = 200 /\ h.sent[j].applied
    /\ \E j \in 1..Len(h.sent) :
        IsInstall(h.sent[j]) /\ h.sent[j].code = 200 /\ h.sent[j].applied
\* the second of two invocations finds the package and does nothing
SecondRunUnchanged(h) ==
    /\ h.outcome = "exit"
    /\ h.changed = FALSE
    /\ h.msg = "no changes"
    /\ Count(h.sent, IsUpload) = 0
    /\ Count(h.sent, IsInstall) = 0

\* C7 as stated: with state=present and aem_force=false, after an invocation
\* that uploaded and installed the package, the next invocation with the same
\* pkg_name and pkg_path issues no upload or install request and reports
\* changed=false with the message 'no changes'.
C7_PackmgrIdempotentAnyName ==
    \A i \in 1..(Len(hist) - 1) :
        (params.state = "present" /\ ~params.aem_force
         /\ UploadedAndInstalled(hist[i]) /\ NoOutage(hist[i+1])) =>
            SecondRunUnchanged(hist[i+1])

\* pkg_name is the name or the downloadName the server lists the package of
\* the file pkg_path under
NamesThePackage ==
    \/ params.pkg_name = PackageIn(params.pkg_path)
    \/ params.pkg_name = DownloadName(PackageIn(params.pkg_path))

\* C7 (amended): the same, for a pkg_name that is the name or the
\* downloadName under which the server lists the package of the file
\* pkg_path.
C7_PackmgrIdempotent ==
    \A i \in 1..(Len(hist) - 1) :
        (params.state = "present" /\ ~params.aem_force /\ NamesThePackage
         /\ UploadedAndInstalled(hist[i]) /\ NoOutage(hist[i+1])) =>
            SecondRunUnchanged(hist[i+1])

\* two invocations of a task naming its package by the downloadName: the
\* first uploaded and installed, the second found the package and did nothing
C7_Witness ==
    /\ Len(hist) = 2
    /\ params.state = "present" /\ ~params.aem_force
    /\ params.pkg_name = DownloadName(PackageIn(params.pkg_path))
    /\ UploadedAndInstalled(hist[1])
    /\ SecondRunUnchanged(hist[2])
    /\ hist[2].sent # <<>>

\* ----------------------------------------------------------------------
\* Further properties of aem_user.py

\* the lookup of the invocation found the user: both GETs answered 200 and
\* the search had a hit
UserFound(h) ==
    /\ h.pre.user.exists
    /\ Len(h.sent) >= 2
    /\ h.sent[1].code = 200
    /\ h.sent[2].what = "info" /\ h.sent[2].code = 200

\* C11: the password is used only when the account is created. When the
\* lookup finds the user, state=present sends no request with a rep:password
\* field and no create request, does not fail on the strength of the
\* password, and leaves the password of the account as it was.
C11_PasswordOnlyAtCreation ==
    \A i \in 1..Len(hist) :
        LET h == hist[i] IN
        (params.state = "present" /\ UserFound(h)) =>
            /\ \A j \in 1..Len(h.sent) :
                h.sent[j].password = None /\ h.sent[j].what # "create"
            /\ h.msg # "Password too weak"
            /\ (i = Len(hist) /\ pc = "idle") =>
                    /\ server.user.exists
                    /\ server.user.password = h.pre.user.password

\* an existing user was renamed by a task that carries a weak password
C11_Witness ==
    \E i \in 1..Len(hist) :
        /\ params.state = "present" /\ params.password = WeakPassword
        /\ UserFound(hist[i])
        /\ hist[i].outcome = "exit" /\ hist[i].changed
        /\ \E j \in 1..Len(hist[i].sent) :
            hist[i].sent[j].what = "update_name" /\ hist[i].sent[j].applied

IsDelete(r) == r.what = "delete"
\* the search of the invocation was answered and the lookup found no user
UserNotFound(h) ==
    /\ Len(h.sent) >= 1 /\ h.sent[1].code = 200
    /\ ~UserFound(h)
\* the invocation deleted the user
UserDeleted(h) ==
    \E j \in 1..Len(h.sent) :
        IsDelete(h.sent[j]) /\ h.sent[j].code = 200 /\ h.sent[j].applied

\* C12: state=absent, outside check mode. When the lookup finds the user,
\* exactly one POST is sent, it carries the deleteAuthorizable flag and goes
\* to the user's path, and once the server answered it changed=true is
\* reported. When the lookup finds no user, no POST is sent and changed=false
\* is reported; so the invocation after a deletion reports unchanged.
C12_UserAbsent ==
    \A i \in 1..Len(hist) :
        LET h == hist[i] IN
        (params.state = "absent" /\ ~params.check_mode) =>
            /\ UserFound(h) =>
                /\ Count(h.sent, IsPost) = 1
                /\ IsDelete(h.sent[3]) /\ h.sent[3].path = "/home/users/u"
                /\ NoOutage(h) => (h.outcome = "exit" /\ h.changed)
            /\ UserNotFound(h) =>
                /\ Count(h.sent, IsPost) = 0
                /\ h.outcome = "exit" /\ h.changed = FALSE
            /\ (i > 1 /\ UserDeleted(hist[i-1]) /\ h.sent[1].code = 200) =>
                /\ Count(h.sent, IsPost) = 0
                /\ h.outcome = "exit" /\ h.changed = FALSE

\* a deletion, followed by an invocation that found nothing to delete
C12_Witness ==
    /\ Len(hist) = 2
    /\ params.state = "absent" /\ ~params.check_mode
    /\ UserFound(hist[1]) /\ UserDeleted(hist[1]) /\ hist[1].changed
    /\ UserNotFound(hist[2]) /\ hist[2].outcome = "exit"
    /\ hist[2].changed = FALSE

\* C13: deleting a user needs no groups parameter. An invocation with
\* state=absent and groups left at its default sends the lookup request, and
\* ends in exit_json when the server answers its requests.
C13_AbsentWithoutGroups ==
    \A i \in 1..Len(hist) :
        LET h == hist[i] IN
        (params.state = "absent" /\ params.groups = NoList) =>
            /\ Len(h.sent) >= 1
            /\ h.outcome # "crash"
            /\ NoOutage(h) => h.outcome = "exit"

\* ----------------------------------------------------------------------
\* Further properties of library/aem_group.py

\* C14: permissions is optional. An invocation with state=present and no
\* permissions parameter does not end in an error of the program, and ends in
\* exit_json when the server answers its requests with success.
C14_PresentWithoutPermissions ==
    \A i \in 1..Len(hist) :
        LET h == hist[i] IN
        (params.state = "present" /\ params.permissions = NoList) =>
            /\ h.outcome # "crash"
            /\ NoOutage(h) => h.outcome = "exit"

\* ----------------------------------------------------------------------
\* Further properties of aem_osgi.py

\* the invocation fetched the configuration and found the target an array
FetchedArray(h) ==
    /\ Len(h.sent) >= 1 /\ h.sent[1].what = "fetch" /\ h.sent[1].code = 200
    /\ h.pre.props.p.kind = "values"
\* the invocation sent one update POST, with exactly the given array as the
\* value of the target property
OverwrittenByValue(h) ==
    /\ Count(h.sent, IsUpdate) = 1
    /\ \A j \in 1..Len(h.sent) :
        IsUpdate(h.sent[j]) =>
            h.sent[j].fields.props.p = ArrayProp(params.value.values)
\* the fetch (a POST to configMgr/<id>) is the only request of the invocation
NothingPosted(h) ==
    /\ Count(h.sent, IsPost) = 1
    /\ h.outcome = "exit" /\ h.changed = FALSE

\* C15 as stated: with osgimode=array and state=present an update POST with
\* exactly the given array is issued whenever the current array differs from
\* the given value, and no POST is issued when they are equal.
C15_ArrayOverwriteAsLists ==
    \A i \in 1..Len(hist) :
        LET h == hist[i] IN
        (params.osgimode = "array" /\ params.state = "present"
         /\ ~params.check_mode /\ FetchedArray(h)) =>
            IF h.pre.props.p.values # params.value.values
            THEN OverwrittenByValue(h)
            ELSE NothingPosted(h)

\* C15 (amended): the arrays are compared regardless of the order of their
\* items. An update POST with exactly the given array is issued whenever the
\* sorted current array differs from the sorted value, and no update is
\* issued when the two hold the same items the same number of times.
C15_ArrayOverwrite ==
    \A i \in 1..Len(hist) :
        LET h == hist[i] IN
        (params.osgimode = "array" /\ params.state = "present"
         /\ ~params.check_mode /\ FetchedArray(h)) =>
            IF Sort(h.pre.props.p.values) # Sort(params.value.values)
            THEN OverwrittenByValue(h)
            ELSE NothingPosted(h)

\* an array was overwritten by a value given in another order than sorted
C15_Witness ==
    \E i \in 1..Len(hist) :
        /\ params.osgimode = "array" /\ params.state = "present"
        /\ ~params.check_mode /\ FetchedArray(hist[i])
        /\ params.value.values = <<"b", "a">>
        /\ OverwrittenByValue(hist[i])
        /\ hist[i].outcome = "exit" /\ hist[i].changed

\* C16: an update posts the full property set and changes only the target.
\* Every update POST carries every key of the fetched configuration, gives
\* each property other than the target exactly the fetched value, and names
\* exactly the fetched keys in propertylist.
C16_UpdateFrame ==
    \A i \in 1..Len(hist) :
        LET h == hist[i] IN
        \A j \in 1..Len(h.sent) :
            IsUpdate(h.sent[j]) =>
                /\ DOMAIN h.sent[j].fields.props = DOMAIN h.pre.props
                /\ \A k \in DOMAIN h.pre.props \ {params.property} :
                    h.sent[j].fields.props[k] = h.pre.props[k]
                /\ h.sent[j].fields.propertylist = DOMAIN h.pre.props

\* an update of the target was applied next to an array property that is
\* not sorted
C16_Witness ==
    \E i \in 1..Len(hist) :
        /\ hist[i].pre.props.q = ArrayProp(<<"b", "a">>)
        /\ \E j \in 1..Len(hist[i].sent) :
            /\ IsUpdate(hist[i].sent[j]) /\ hist[i].sent[j].applied
            /\ hist[i].sent[j].fields.props.p # hist[i].pre.props.p
        /\ server.props.q = ArrayProp(<<"b", "a">>)

\* the instance holds, for every key of the desired value, a field equal to
\* the value (an int as its decimal string, a list as its bracketed text)
FieldsEqual(instance, value) ==
    \A k \in ValueKeys(value) : instance[k] = StoredText(value[k])
\* the instances the listing of the invocation held that equal the value
EqualInstances(h) ==
    {n \in 1..Len(h.pre.instances) :
        FieldsEqual(h.pre.instances[n], params.value)}
IsDeleteFactory(r) == r.what = "delete"

\* C17: factory matching. With state=present, outside check mode and with the
\* server answering: when no instance equals the desired value one create
\* POST is sent; when exactly one does the invocation exits unchanged without
\* a create; when two or more do it fails and sends no create or delete.
C17_FactoryMatching ==
    \A i \in 1..Len(hist) :
        LET h == hist[i]
            n == Cardinality(EqualInstances(h))
        IN (params.osgimode = "factory" /\ params.state = "present"
            /\ ~params.check_mode /\ Len(h.sent) >= 1 /\ NoOutage(h)) =>
                /\ n = 0 => Count(h.sent, IsCreate) = 1
                /\ n = 1 => /\ h.outcome = "exit" /\ h.changed = FALSE
                            /\ Count(h.sent, IsCreate) = 0
                /\ n >= 2 => /\ h.outcome = "fail"
                             /\ Count(h.sent, IsCreate) = 0
                             /\ Count(h.sent, IsDeleteFactory) = 0

\* C18: state=absent. In factory mode, outside check mode and with the server
\* answering: when exactly one instance equals the desired value one delete
\* POST is sent to that instance and changed=true is reported; when none does
\* no POST is sent and changed=false is reported. In string, array and
\* arrayappend mode the invocation fails with 'State "absent" is not
\* supported yet' and sends no update.
C18_OsgiAbsent ==
    \A i \in 1..Len(hist) :
        LET h == hist[i]
            n == Cardinality(EqualInstances(h))
        IN (params.state = "absent" /\ Len(h.sent) >= 1 /\ NoOutage(h)) =>
            /\ (params.osgimode = "factory" /\ ~params.check_mode /\ n = 1) =>
                /\ Count(h.sent, IsDeleteFactory) = 1
                /\ Count(h.sent, IsPost) = 1
                /\ \A j \in 1..Len(h.sent) :
                    IsDeleteFactory(h.sent[j]) =>
                        h.sent[j].fields.pid \in EqualInstances(h)
                /\ h.outcome = "exit" /\ h.changed
            /\ (params.osgimode = "factory" /\ ~params.check_mode /\ n = 0) =>
                /\ Count(h.sent, IsPost) = 0
                /\ h.outcome = "exit" /\ h.changed = FALSE
            /\ params.osgimode # "factory" =>
                /\ h.outcome = "fail"
                /\ h.msg = "State \"absent\" is not supported yet, sorry"
                /\ Count(h.sent, IsUpdate) = 0

\* ----------------------------------------------------------------------
\* Further properties of library/aem_packmgr.py

\* the server as invocation i left it
ServerAfter(i) ==
    IF i < Len(hist) THEN hist[i+1].pre
    ELSE IF pc = "idle" THEN server ELSE pre
\* the packages a server holds
PackageSet(srv) == {n \in PackageNames : srv.packages[n] # "absent"}
\* request j of the invocation is an upload the server accepted, followed by
\* an install command it answered with another code than 200
FailedInstallAt(h, j) ==
    /\ j + 1 <= Len(h.sent)
    /\ IsUpload(h.sent[j]) /\ h.sent[j].code = 200 /\ h.sent[j].applied
    /\ IsInstall(h.sent[j+1]) /\ h.sent[j+1].code # 200
IsRemove(r) == r.what = "rm"

\* C19: a failed installation is rolled back. After an upload that succeeded
\* and an install command answered with another code than 200, the module
\* sends the removal of the uploaded package and ends in fail_json; once the
\* server applied the removal it holds the same packages as before the
\* invocation, also with aem_force=true over a package already present.
C19_InstallRollback ==
    \A i \in 1..Len(hist) :
        LET h == hist[i] IN
        \A j \in 1..Len(h.sent) :
            (params.state = "present" /\ FailedInstallAt(h, j)) =>
                /\ Len(h.sent) = j + 2
                /\ IsRemove(h.sent[j+2])
                /\ h.sent[j+2].name = PackageIn(params.pkg_path)
                /\ h.outcome = "fail"
                /\ h.sent[j+2].applied =>
                    PackageSet(ServerAfter(i)) = PackageSet(h.pre)

IsValidate(r) == r.what = "validate"
IsList(r) == r.what = "ls"

\* C20: list, validate, upload, install are one linear sequence. The list
\* request, if any, is the first; with pkg_validate an upload is preceded by
\* a validation answered 200; a validation answered otherwise is the last
\* request and the invocation fails (no upload, install or remove); an
\* install command directly follows an upload answered 200.
C20_LinearSequence ==
    \A i \in 1..Len(hist) :
        LET h == hist[i] IN
        \A j \in 1..Len(h.sent) :
            /\ IsList(h.sent[j]) => j = 1
            /\ (IsUpload(h.sent[j]) /\ params.pkg_validate) =>
                /\ j > 1
                /\ IsValidate(h.sent[j-1]) /\ h.sent[j-1].code = 200
            /\ (IsValidate(h.sent[j]) /\ h.sent[j].code # 200) =>
                /\ Len(h.sent) = j
                /\ h.outcome = "fail"
                /\ h.msg = "validation of  package " \o params.pkg_name
                               \o " is failed"
                /\ Count(h.sent, IsUpload) = 0
                /\ Count(h.sent, IsInstall) = 0
                /\ Count(h.sent, IsRemove) = 0
            /\ IsInstall(h.sent[j]) =>
                /\ j > 1
                /\ IsUpload(h.sent[j-1]) /\ h.sent[j-1].code = 200

\* a validation that failed, then the whole sequence list, validate, upload,
\* install
C20_Witness ==
    /\ Len(hist) = 2
    /\ params.pkg_validate /\ ~params.aem_force
    /\ Len(hist[1].sent) = 2
    /\ IsValidate(hist[1].sent[2]) /\ hist[1].sent[2].code # 200
    /\ hist[1].outcome = "fail"
    /\ Len(hist[2].sent) = 4
    /\ IsList(hist[2].sent[1]) /\ IsValidate(hist[2].sent[2])
    /\ IsUpload(hist[2].sent[3]) /\ IsInstall(hist[2].sent[4])
    /\ hist[2].outcome = "exit" /\ hist[2].changed

\* the server lists a package whose name or downloadName is the given name
Listed(srv, name) ==
    \E n \in PackageNames :
        srv.packages[n] # "absent" /\ (name = n \/ name = DownloadName(n))

\* C21: state=absent, once the server answered the list request. When
\* pkg_name is listed, one remove request for pkg_name is sent and nothing
\* else; the module reports changed=true when it is answered 200 and fails
\* otherwise. When pkg_name is not listed, no remove request is sent and
\* changed=false with the message 'no changes' is reported. No upload or
\* install request is ever sent.
C21_PackmgrAbsent ==
    \A i \in 1..Len(hist) :
        LET h == hist[i] IN
        params.state = "absent" =>
            /\ Count(h.sent, IsUpload) = 0
            /\ Count(h.sent, IsInstall) = 0
            /\ (Len(h.sent) >= 1 /\ h.sent[1].code = 200
                /\ Listed(h.pre, params.pkg_name)) =>
                    /\ Len(h.sent) = 2
                    /\ IsRemove(h.sent[2])
                    /\ h.sent[2].name = params.pkg_name
                    /\ h.sent[2].code = 200 =>
                        /\ h.outcome = "exit" /\ h.changed
                        /\ h.msg = "Removing package " \o params.pkg_name
                                       \o " was successful"
                    /\ h.sent[2].code # 200 =>
                        /\ h.outcome = "fail"
                        /\ h.msg = "Removing package " \o params.pkg_name
                                       \o " is failed"
            /\ (Len(h.sent) >= 1 /\ h.sent[1].code = 200
                /\ ~Listed(h.pre, params.pkg_name)) =>
                    /\ Len(h.sent) = 1
                    /\ h.outcome = "exit" /\ h.changed = FALSE
                    /\ h.msg = "no changes"

\* a removal that succeeded, then an invocation that found nothing listed
C21_Witness ==
    /\ Len(hist) = 2
    /\ params.state = "absent"
    /\ Len(hist[1].sent) = 2 /\ IsRemove(hist[1].sent[2])
    /\ hist[1].sent[2].applied /\ hist[1].changed
    /\ Len(hist[2].sent) = 1 /\ hist[2].sent[1].code = 200
    /\ hist[2].msg = "no changes"

\* ======================================================================
\* One invocation of any module
\* ======================================================================

\* The module a task belongs to, told by a parameter only that module's
\* argument_spec declares.
IsBundleTask == "action" \in DOMAIN params
IsPasswordTask == "ignore_err" \in DOMAIN params
IsUserTask == "first_name" \in DOMAIN params
IsGroupTask == "root_groups" \in DOMAIN params
IsOsgiTask == "osgimode" \in DOMAIN params
IsPackmgrTask == "pkg_name" \in DOMAIN params

Init_Invocation ==
    \/ Init_Bundle
    \/ Init_Password
    \/ Init_User
    \/ Init_Group
    \/ Init_Osgi
    \/ Init_Packmgr

\* The first invocation of a behaviour.
FirstRun == Len(hist) = 0

\* main of the module the task belongs to, run once.
Next_Invocation ==
    \/ FirstRun /\ IsBundleTask /\ AEMBundle_init
    \/ FirstRun /\ IsBundleTask /\ AEMBundle_apply_task
    \/ FirstRun /\ IsBundleTask /\ AEMBundle_show_message
    \/ FirstRun /\ IsPasswordTask /\ AEMPassword_init
    \/ FirstRun /\ IsPasswordTask /\ AEMPassword_set_password
    \/ FirstRun /\ IsPasswordTask /\ AEMPassword_exit_status
    \/ FirstRun /\ IsUserTask /\ AEMUser_init
    \/ FirstRun /\ IsUserTask /\ AEMUser_present
    \/ FirstRun /\ IsUserTask /\ AEMUser_absent
    \/ FirstRun /\ IsUserTask /\ AEMUser_exit_status
    \/ FirstRun /\ IsGroupTask /\ AEMGroup_init
    \/ FirstRun /\ IsGroupTask /\ AEMGroup_present
    \/ FirstRun /\ IsGroupTask /\ AEMGroup_absent
    \/ FirstRun /\ IsGroupTask /\ AEMGroup_exit_status
    \/ FirstRun /\ IsOsgiTask /\ AEMOsgi_init
    \/ FirstRun /\ IsOsgiTask /\ AEMOsgi_present
    \/ FirstRun /\ IsOsgiTask /\ AEMOsgi_absent
    \/ FirstRun /\ IsOsgiTask /\ AEMOsgi_exit_status
    \/ FirstRun /\ IsPackmgrTask /\ AEMPackmgr_main
    \/ FirstRun /\ IsPackmgrTask /\ AEMPackmgr_install
    \/ FirstRun /\ IsPackmgrTask /\ AEMPackmgr_remove
    \/ FirstRun /\ IsPackmgrTask /\ AEMPackmgr_exit_json

SpecInvocation == Init_Invocation /\ [][Next_Invocation]_vars

\* ======================================================================
\* Properties of every module: failed requests
\* ======================================================================

\* A request answered with a status outside 2xx.
Refused(r) == r.code \notin 200..299

\* A request that asks the server to change its state: every POST but the
\* fetch of a configuration and the validation of a package.
Mutating(r) == r.method = "POST" /\ r.what \notin {"fetch", "validate"}

\* Invocation h ends in fail_json and sends no mutating request after its
\* j-th request.
FatalAt(h, j) ==
    /\ h.outcome = "fail"
    /\ \A k \in (j + 1)..Len(h.sent) : ~Mutating(h.sent[k])

StatusNotDeciding(h, j) ==
    \/ h.sent[j].what \in {"probe", "info", "ls", "inst"}
    \/ /\ IsGroupTask
       /\ h.sent[j].what = "update_groups"
       /\ j < Len(h.sent)
       /\ h.sent[j + 1].what = "update_groups"

SameRequest(a, b) ==
    [a EXCEPT !.code = 0, !.applied = FALSE]
        = [b EXCEPT !.code = 0, !.applied = FALSE]

\* The j-th request of invocation h is sent again later in h.
SentAgain(h, j) ==
    \E k \in (j + 1)..Len(h.sent) : SameRequest(h.sent[j], h.sent[k])

UncheckedGroupPost(h, j) ==
    /\ IsGroupTask
    /\ h.sent[j].what = "update_groups"
    /\ j < Len(h.sent)
    /\ h.sent[j + 1].what = "update_groups"

\* The failed install at j is followed by the removal of the same package,
\* which is the last request of the invocation, and the invocation fails.
RolledBack(h, j) ==
    /\ Len(h.sent) = j + 1
    /\ h.sent[j + 1].what = "rm"
    /\ h.sent[j + 1].name = h.sent[j].name
    /\ h.outcome = "fail"

InCheckMode == "check_mode" \in DOMAIN params /\ params.check_mode

\* C24: in check mode an invocation of aem_osgi, aem_user, aem_group or
\* aem_password sends no mutating request, only state-fetching ones, and
\* the server state during and after the invocation is the state before it.
C24_CheckModeReadsOnly ==
    InCheckMode =>
        /\ \A j \in 1..Len(sent) : ~Mutating(sent[j])
        /\ pc # "idle" => server = pre
        /\ \A i \in 1..Len(hist) :
            /\ \A j \in 1..Len(hist[i].sent) : ~Mutating(hist[i].sent[j])
            /\ (i = Len(hist) /\ pc = "idle") => server = hist[i].pre

\* A check-mode invocation that fetched the state and reported a change.
C24_Witness ==
    /\ InCheckMode
    /\ pc = "idle"
    /\ \E i \in 1..Len(hist) :
        /\ hist[i].outcome = "exit"
        /\ hist[i].changed
        /\ hist[i].sent # <<>>

\* ======================================================================
\* A task run in check mode, then for real
\* ======================================================================

\* The tasks of the modules with supports_check_mode=True, in check mode.
Init_CheckThenReal ==
    /\ \/ Init_Password
       \/ Init_User
       \/ Init_Group
       \/ Init_Osgi
    /\ params.check_mode

\* The first invocation runs in check mode, the second one without.
CheckThenReal ==
    \/ Len(hist) = 0 /\ params.check_mode
    \/ Len(hist) = 1 /\ ~params.check_mode

\* The task is run again without --check.
RunForReal ==
    /\ pc = "idle"
    /\ Len(hist) = 1
    /\ params.check_mode
    /\ params' = [params EXCEPT !.check_mode = FALSE]
    /\ UNCHANGED <<pc, self, server, sent, pre, hist>>

Next_CheckThenReal ==
    \/ RunForReal
    \/ CheckThenReal /\ IsPasswordTask /\ AEMPassword_init
    \/ CheckThenReal /\ IsPasswordTask /\ AEMPassword_set_password
    \/ CheckThenReal /\ IsPasswordTask /\ AEMPassword_exit_status
    \/ CheckThenReal /\ IsUserTask /\ AEMUser_init
    \/ CheckThenReal /\ IsUserTask /\ AEMUser_present
    \/ CheckThenReal /\ IsUserTask /\ AEMUser_absent
    \/ CheckThenReal /\ IsUserTask /\ AEMUser_exit_status
    \/ CheckThenReal /\ IsGroupTask /\ AEMGroup_init
    \/ CheckThenReal /\ IsGroupTask /\ AEMGroup_present
    \/ CheckThenReal /\ IsGroupTask /\ AEMGroup_absent
    \/ CheckThenReal /\ IsGroupTask /\ AEMGroup_exit_status
    \/ CheckThenReal /\ IsOsgiTask /\ AEMOsgi_init
    \/ CheckThenReal /\ IsOsgiTask /\ AEMOsgi_present
    \/ CheckThenReal /\ IsOsgiTask /\ AEMOsgi_absent
    \/ CheckThenReal /\ IsOsgiTask /\ AEMOsgi_exit_status

SpecCheckThenReal == Init_CheckThenReal /\ [][Next_CheckThenReal]_vars

\* The server answered every request of invocation h: no 5xx status.
Answered(h) == \A j \in 1..Len(h.sent) : h.sent[j].code \notin 500..599

\* C25: check mode predicts the real run: when the task, run in check mode
\* and then without it against the same server state, succeeds in the real
\* run, the check-mode run reported the changed value of the real run.
C25_CheckModePredicts ==
    (/\ Len(hist) = 2
     /\ hist[2].pre = hist[1].pre
     /\ Answered(hist[1])
     /\ Answered(hist[2])
     /\ hist[2].outcome = "exit")
        => hist[1].changed = hist[2].changed

====
